---- MODULE Spec2Model ----
(***************************************************************************)
(* A model of cas-alert: the Alert record and its identity hash, the       *)
(* duplicate detector and deduplication engine (data/duplicates.py), the   *)
(* store update with its planning step (storage/google_sheets.py), and the *)
(* run of main (main.py).                                                  *)
(*                                                                         *)
(* Strings are sequences of one-character strings, so that lower-casing,   *)
(* similarity, concatenation and date formatting are computed.             *)
(***************************************************************************)
EXTENDS Integers, Sequences, FiniteSets, TLC

(***************************************************************************)
(* Bounds of the model.                                                    *)
(***************************************************************************)
MaxLen == 3
MaxKnown == 1
MaxCand == 2
MaxScrape == 1
MaxStore == 3
MaxBuilt == 2
MaxRebuilt == 1
MaxCore == 2
MaxCalls == 3
MaxPages == 2

(***************************************************************************)
(* Program constants.                                                      *)
(***************************************************************************)
\* settings.DUPLICATE_THRESHOLD (0.85), held in hundredths: the code compares
\* the 0-100 similarity with DUPLICATE_THRESHOLD * 100 = 85.0.
DUPLICATE_THRESHOLD == 85

(***************************************************************************)
(* Strings.                                                                *)
(***************************************************************************)
EMPTY == << >>

\* str.lower() on the characters the model uses.
LowerChar(c) ==
    CASE c = "R" -> "r"
      [] c = "P" -> "p"
      [] OTHER -> c

lower(s) == [i \in 1..Len(s) |-> LowerChar(s[i])]

Max(a, b) == IF a >= b THEN a ELSE b

\* One row of the longest-common-subsequence table: prev is the row of the
\* previous character of a (prev[j+1] = LCS(a[1..i-1], b[1..j])), row the part
\* of the current row built so far.
RECURSIVE LcsRow(_, _, _, _)
LcsRow(prev, c, b, row) ==
    IF Len(row) = Len(b) + 1 THEN row
    ELSE LET j == Len(row)
             v == IF c = b[j] THEN prev[j] + 1
                  ELSE Max(prev[j + 1], row[j])
         IN LcsRow(prev, c, b, Append(row, v))

RECURSIVE LcsRows(_, _, _, _)
LcsRows(a, b, i, prev) ==
    IF i > Len(a) THEN prev[Len(b) + 1]
    ELSE LcsRows(a, b, i + 1, LcsRow(prev, a[i], b, <<0>>))

\* The number of matching characters of a Levenshtein-style matcher.
Matches(a, b) == LcsRows(a, b, 1, [j \in 1..(Len(b) + 1) |-> 0])

\* int(round(x)) for x = num / den >= 0, Python's round-half-to-even.
RoundHalfEven(num, den) ==
    LET q == num \div den
        r == num % den
    IN IF 2 * r < den THEN q
       ELSE IF 2 * r > den THEN q + 1
       ELSE IF q % 2 = 0 THEN q ELSE q + 1

\* fuzz.ratio(s1, s2): 100 for equal strings, 0 when one is empty, else
\* int(round(100 * 2*M / (len(s1) + len(s2)))).
FuzzRatio(s1, s2) ==
    IF s1 = s2 THEN 100
    ELSE IF Len(s1) = 0 \/ Len(s2) = 0 THEN 0
    ELSE RoundHalfEven(200 * Matches(s1, s2), Len(s1) + Len(s2))

(***************************************************************************)
(* The values the inputs are drawn from.                                   *)
(***************************************************************************)
R1 == <<"R", "1">>
R2 == <<"R", "2">>
O1 == <<"N", "H", "S">>
O2 == <<"C", "M", "O">>
GOVUK_ORIGINATOR == <<"M", "H", "R", "A", "/", "G", "O", "V", ".", "U", "K">>

\* tB is within the threshold of tA and of tC; tA and tC are not within it of
\* each other.  tU is tB but for case.
tB == <<"r", "e", "c", "a", "l", "l">>
tA == tB \o <<"1", "1">>
tC == tB \o <<"2", "2">>
tU == <<"R", "e", "c", "a", "l", "l">>
\* A pair at similarity 85 and a pair at similarity 84.
t85a == <<"p", "u", "m", "p", " ", "r", "e", "c", "a", "l", "l", "b", "b">>
t85b == <<"p", "u", "m", "p", " ", "r", "e", "c", "a", "l", "l", "c", "c">>
t84a == <<"p", "u", "m", "p", "f", "a", "i", "l", "a">>
t84b == <<"p", "u", "m", "p", "f", "a", "i", "l", "b", "b">>

\* The time of day of a datetime parsed from a date alone, and another one.
Midnight == "00:00:00"

Noon == "12:00:00"

Day(d) == [day |-> d, time |-> Midnight]

(***************************************************************************)
(* Alert (data/models.py).  A record of the fields the identity hash, the  *)
(* detector and the store read.  issue_date is a datetime: a calendar day  *)
(* and a time of day.                                                      *)
(***************************************************************************)
\* The hash_id argument left at its default.
None == <<"None">>

Digits == <<"0", "1", "2", "3", "4", "5", "6", "7", "8", "9">>

\* issue_date.strftime('%Y-%m-%d'); the model's days are 2025-01-01 .. 2025-01-09.
StrftimeYmd(dt) ==
    <<"2", "0", "2", "5", "-", "0", "1", "-", "0", Digits[dt.day + 1]>>

\* issue_date.date()
Date(dt) == dt.day

\* hashlib.md5(content.encode()).hexdigest(), taken to be injective: the
\* digest is the content behind a marker, so it is never the empty string.
Md5(content) == <<"#">> \o content

\* A hash that reads the source too.
GenerateHash_WithSource(a) ==
    Md5(a.reference \o <<"|">> \o a.title \o <<"|">> \o a.originator
        \o <<"|">> \o StrftimeYmd(a.issue_date) \o <<"|", a.source>>)

GenerateHash(a) ==
    Md5(a.reference \o <<"|">> \o a.title \o <<"|">> \o a.originator
        \o <<"|">> \o StrftimeYmd(a.issue_date))

\* datetime.now()
Now == [day |-> 2, time |-> Noon]

\* The scraped_at argument left at its default.
NoDatetime == [day |-> 0, time |-> "None"]

\* Alert(...) with __post_init__: scraped_at is set when none is given, and
\* the hash is generated when none is given.
NewAlert(reference, title, originator, issue_date, status, alert_type, source, url, medical_specialty, scraped_at, hash_id) ==
    LET a == [reference |-> reference, title |-> title,
              originator |-> originator, issue_date |-> issue_date,
              status |-> status, alert_type |-> alert_type,
              source |-> source, url |-> url,
              medical_specialty |-> medical_specialty,
              scraped_at |-> IF scraped_at = NoDatetime THEN Now
                             ELSE scraped_at,
              hash_id |-> hash_id]
    IN IF hash_id = None THEN [a EXCEPT !.hash_id = GenerateHash(a)] ELSE a

\* An Alert built with the fields the detector, the engine and the planner
\* do not read held fixed.
Alert(reference, title, originator, issue_date, source, hash_id) ==
    NewAlert(reference, title, originator, issue_date, "Issued", "Unknown",
             source, EMPTY, None, NoDatetime, hash_id)

\* Every string taken as true.
Truthy_Always(s) == TRUE

\* Python truth of a string.
Truthy(s) == s /= EMPTY

(***************************************************************************)
(* DuplicateManager (data/duplicates.py).                                  *)
(***************************************************************************)
\* Variants of is_duplicate with one slip each.
IsDuplicate_NoHashRule(alert1, alert2) ==
    IF Truthy(alert1.reference) /\ alert1.reference = alert2.reference
    THEN TRUE
    ELSE /\ alert1.source = alert2.source
         /\ FuzzRatio(lower(alert1.title), lower(alert2.title))
                >= DUPLICATE_THRESHOLD
         /\ Date(alert1.issue_date) = Date(alert2.issue_date)

IsDuplicate_StrictThreshold(alert1, alert2) ==
    IF Truthy(alert1.reference) /\ alert1.reference = alert2.reference
    THEN TRUE
    ELSE IF /\ alert1.source = alert2.source
            /\ FuzzRatio(lower(alert1.title), lower(alert2.title))
                   > DUPLICATE_THRESHOLD
            /\ Date(alert1.issue_date) = Date(alert2.issue_date)
    THEN TRUE
    ELSE Truthy(alert1.hash_id) /\ alert1.hash_id = alert2.hash_id

IsDuplicate_LowerFirstOnly(alert1, alert2) ==
    IF Truthy(alert1.reference) /\ alert1.reference = alert2.reference
    THEN TRUE
    ELSE IF /\ alert1.source = alert2.source
            /\ FuzzRatio(lower(alert1.title), alert2.title)
                   >= DUPLICATE_THRESHOLD
            /\ Date(alert1.issue_date) = Date(alert2.issue_date)
    THEN TRUE
    ELSE Truthy(alert1.hash_id) /\ alert1.hash_id = alert2.hash_id

IsDuplicate_RefWithinSource(alert1, alert2) ==
    IF /\ Truthy(alert1.reference) /\ alert1.reference = alert2.reference
       /\ alert1.source = alert2.source
    THEN TRUE
    ELSE IF /\ alert1.source = alert2.source
            /\ FuzzRatio(lower(alert1.title), lower(alert2.title))
                   >= DUPLICATE_THRESHOLD
            /\ Date(alert1.issue_date) = Date(alert2.issue_date)
    THEN TRUE
    ELSE Truthy(alert1.hash_id) /\ alert1.hash_id = alert2.hash_id

IsDuplicate(alert1, alert2) ==
    IF Truthy(alert1.reference) /\ alert1.reference = alert2.reference
    THEN TRUE
    ELSE IF /\ alert1.source = alert2.source
            /\ FuzzRatio(lower(alert1.title), lower(alert2.title))
                   >= DUPLICATE_THRESHOLD
            /\ Date(alert1.issue_date) = Date(alert2.issue_date)
    THEN TRUE
    ELSE IF Truthy(alert1.hash_id) /\ alert1.hash_id = alert2.hash_id
    THEN TRUE
    ELSE FALSE

Range(s) == {s[i] : i \in 1..Len(s)}

\* The first loop without the tests for an empty reference or hash_id.
RECURSIVE Phase1_NoEmptyCheck(_, _, _, _, _)
Phase1_NoEmptyCheck(alerts, i, unique, seen_hashes, seen_references) ==
    IF i > Len(alerts) THEN unique
    ELSE LET alert == alerts[i] IN
         IF alert.reference \in seen_references
               \/ alert.hash_id \in seen_hashes
         THEN Phase1_NoEmptyCheck(alerts, i + 1, unique,
                                  seen_hashes, seen_references)
         ELSE Phase1_NoEmptyCheck(alerts, i + 1, Append(unique, i),
                                  seen_hashes \cup {alert.hash_id},
                                  seen_references \cup {alert.reference})

\* The first loop looking at the reference alone.
RECURSIVE Phase1_ReferenceOnly(_, _, _, _, _)
Phase1_ReferenceOnly(alerts, i, unique, seen_hashes, seen_references) ==
    IF i > Len(alerts) THEN unique
    ELSE LET alert == alerts[i] IN
         IF Truthy(alert.reference) /\ alert.reference \in seen_references
         THEN Phase1_ReferenceOnly(alerts, i + 1, unique,
                                   seen_hashes, seen_references)
         ELSE Phase1_ReferenceOnly(alerts, i + 1, Append(unique, i),
                     seen_hashes,
                     IF Truthy(alert.reference)
                     THEN seen_references \cup {alert.reference}
                     ELSE seen_references)

\* The first loop of remove_duplicates from position i on.  unique holds the
\* positions (in alerts) of the records appended to unique_alerts so far.
RECURSIVE Phase1(_, _, _, _, _)
Phase1(alerts, i, unique, seen_hashes, seen_references) ==
    IF i > Len(alerts) THEN unique
    ELSE LET alert == alerts[i] IN
         IF Truthy(alert.reference) /\ alert.reference \in seen_references
         THEN Phase1(alerts, i + 1, unique, seen_hashes, seen_references)
         ELSE IF Truthy(alert.hash_id) /\ alert.hash_id \in seen_hashes
         THEN Phase1(alerts, i + 1, unique, seen_hashes, seen_references)
         ELSE Phase1(alerts, i + 1, Append(unique, i),
                     IF Truthy(alert.hash_id)
                     THEN seen_hashes \cup {alert.hash_id} ELSE seen_hashes,
                     IF Truthy(alert.reference)
                     THEN seen_references \cup {alert.reference}
                     ELSE seen_references)

\* The inner loop leaving at the first duplicate it finds.
RECURSIVE Phase2Inner_BreakAtFirst(_, _, _, _)
Phase2Inner_BreakAtFirst(unique_alerts, i, j, processed_indices) ==
    IF j > Len(unique_alerts) THEN processed_indices
    ELSE IF j \in processed_indices
    THEN Phase2Inner_BreakAtFirst(unique_alerts, i, j + 1, processed_indices)
    ELSE IF IsDuplicate(unique_alerts[i], unique_alerts[j])
    THEN processed_indices \cup {j}
    ELSE Phase2Inner_BreakAtFirst(unique_alerts, i, j + 1, processed_indices)

\* The inner loop of the second phase: compares unique_alerts[i] with the
\* later records and returns processed_indices.
RECURSIVE Phase2Inner(_, _, _, _)
Phase2Inner(unique_alerts, i, j, processed_indices) ==
    IF j > Len(unique_alerts) THEN processed_indices
    ELSE IF j \in processed_indices
    THEN Phase2Inner(unique_alerts, i, j + 1, processed_indices)
    ELSE IF IsDuplicate(unique_alerts[i], unique_alerts[j])
    THEN Phase2Inner(unique_alerts, i, j + 1, processed_indices \cup {j})
    ELSE Phase2Inner(unique_alerts, i, j + 1, processed_indices)

\* The outer loop with the inner loop starting one position late.
RECURSIVE Phase2_OffByOne(_, _, _, _)
Phase2_OffByOne(unique_alerts, i, processed_indices, final) ==
    IF i > Len(unique_alerts) THEN final
    ELSE IF i \in processed_indices
    THEN Phase2_OffByOne(unique_alerts, i + 1, processed_indices, final)
    ELSE Phase2_OffByOne(unique_alerts, i + 1,
                Phase2Inner(unique_alerts, i, i + 2, processed_indices),
                Append(final, i))

\* The outer loop using records already marked as duplicates as anchors.
RECURSIVE Phase2_RemovedAnchors(_, _, _, _)
Phase2_RemovedAnchors(unique_alerts, i, processed_indices, final) ==
    IF i > Len(unique_alerts) THEN final
    ELSE Phase2_RemovedAnchors(unique_alerts, i + 1,
                Phase2Inner(unique_alerts, i, i + 1, processed_indices),
                IF i \in processed_indices THEN final ELSE Append(final, i))

\* The outer loop of the second phase; final holds the positions (in
\* unique_alerts) appended to final_unique_alerts.
RECURSIVE Phase2(_, _, _, _)
Phase2(unique_alerts, i, processed_indices, final) ==
    IF i > Len(unique_alerts) THEN final
    ELSE IF i \in processed_indices
    THEN Phase2(unique_alerts, i + 1, processed_indices, final)
    ELSE Phase2(unique_alerts, i + 1,
                Phase2Inner(unique_alerts, i, i + 1, processed_indices),
                Append(final, i))

Pick(s, idx) == [k \in 1..Len(idx) |-> s[idx[k]]]

\* The positions of alerts that survive the first phase, and both phases.
Phase1Idx(alerts) == Phase1(alerts, 1, << >>, {}, {})

KeptIdx(alerts) ==
    LET p1 == Phase1Idx(alerts)
        p2 == Phase2(Pick(alerts, p1), 1, {}, << >>)
    IN Pick(p1, p2)

\* remove_duplicates putting each kept record in front of the earlier ones.
RemoveDuplicates_Prepend(alerts) ==
    LET k == KeptIdx(alerts)
    IN [n \in 1..Len(k) |-> alerts[k[Len(k) + 1 - n]]]

\* No record removed.
RemoveDuplicates_KeepAll(alerts) == alerts

RemoveDuplicates(alerts) == Pick(alerts, KeptIdx(alerts))

\* DataProcessor.process_and_deduplicate
ProcessAndDeduplicate(alerts) == RemoveDuplicates(alerts)


(***************************************************************************)
(* The scrapers (scrapers/cas_mhra.py, scrapers/govuk.py): the record a    *)
(* table row or list item gives, and what the detail page does to it.  A   *)
(* detail page is [fetched, originator] for CAS and [fetched, h1,          *)
(* published, dmrc] for GOV.UK, None (NoDatetime for published) standing   *)
(* for an element the page lacks.                                          *)
(***************************************************************************)
\* CASMHRAScraper.enrich_alert_with_detail, on the fields the model follows.
EnrichCAS(alert, detail) ==
    IF detail.fetched /\ Truthy(detail.originator)
    THEN [alert EXCEPT !.originator = detail.originator]
    ELSE alert

\* The link of a CAS table row.
CAS_URL == <<"/", "c">>

\* parse_alert_table: one row with a valid date and a link.
CASAlert(reference, title, originator, issue_date, detail) ==
    EnrichCAS(NewAlert(reference, title, originator, issue_date, "Issued",
                       "Unknown", "CAS", CAS_URL, None, NoDatetime, None),
              detail)

\* GOVUKScraper.enrich_alert_with_detail, on the fields the model follows.
EnrichGOVUK(alert, detail) ==
    IF ~detail.fetched THEN alert
    ELSE LET a1 == IF detail.h1 /= None
                   THEN [alert EXCEPT !.title = detail.h1] ELSE alert
             a2 == IF detail.published /= NoDatetime
                   THEN [a1 EXCEPT !.issue_date = detail.published] ELSE a1
         IN IF detail.dmrc /= None
            THEN [a2 EXCEPT !.reference = detail.dmrc] ELSE a2

\* parse_alert_list: one item with a title, a link and a valid date; the
\* link is the reference.
GOVUKAlert(alert_url, title, issue_date, detail) ==
    EnrichGOVUK(NewAlert(alert_url, title, GOVUK_ORIGINATOR, issue_date,
                         "Issued", "Unknown", "GOVUK", alert_url, None,
                         NoDatetime, None),
                detail)

(***************************************************************************)
(* The pages the scrapers read (scrapers/base.py, cas_mhra.py, govuk.py).  *)
(* A CAS table row is [cols, reference, title, originator, issue_date,     *)
(* detail], cols the number of its cells; a GOV.UK list item is [title,    *)
(* href, date, detail], date the text of its last metadata entry.  The     *)
(* texts are the cells as the page has them.                               *)
(***************************************************************************)
MAX_RETRIES == 3

\* BaseScraper.clean_text: ' '.join(text.split()).strip()
RECURSIVE Collapse(_, _, _)
Collapse(text, i, out) ==
    IF i > Len(text) THEN out
    ELSE IF text[i] = " " /\ (out = << >> \/ out[Len(out)] = " ")
    THEN Collapse(text, i + 1, out)
    ELSE Collapse(text, i + 1, Append(out, text[i]))

clean_text(text) ==
    LET c == Collapse(text, 1, << >>)
    IN IF c /= << >> /\ c[Len(c)] = " " THEN SubSeq(c, 1, Len(c) - 1) ELSE c

DigitChars == {Digits[k] : k \in 1..10}

Letters ==
    {"a", "b", "c", "d", "e", "f", "g", "h", "i", "j", "k", "l", "m",
     "n", "o", "p", "q", "r", "s", "t", "u", "v", "w", "x", "y", "z",
     "A", "B", "C", "D", "E", "F", "G", "H", "I", "J", "K", "L", "M",
     "N", "O", "P", "Q", "R", "S", "T", "U", "V", "W", "X", "Y", "Z"}

\* re.compile(r'^\d{2}-[A-Za-z]{3}-\d{4}$').match(s)
date_pattern(s) ==
    /\ Len(s) = 11
    /\ s[1] \in DigitChars /\ s[2] \in DigitChars
    /\ s[3] = "-"
    /\ s[4] \in Letters /\ s[5] \in Letters /\ s[6] \in Letters
    /\ s[7] = "-"
    /\ \A k \in 8..11 : s[k] \in DigitChars

\* The texts strptime reads as day d of January 2025 under '%d-%b-%Y' and
\* under '%d %B %Y': the day with or without its leading zero, the month
\* name in any case (two spellings are followed).
FormsDbY(d) ==
    { day \o <<"-">> \o mon \o <<"-", "2", "0", "2", "5">> :
        day \in {<<"0", Digits[d + 1]>>, <<Digits[d + 1]>>},
        mon \in {<<"J", "a", "n">>, <<"j", "a", "n">>} }

FormsdBY(d) ==
    { day \o <<" ">> \o mon \o <<" ", "2", "0", "2", "5">> :
        day \in {<<"0", Digits[d + 1]>>, <<Digits[d + 1]>>},
        mon \in {<<"J", "a", "n", "u", "a", "r", "y">>,
                 <<"j", "a", "n", "u", "a", "r", "y">>} }

\* datetime.strptime(s, fmt) for the two formats the scrapers pass.
Strptime(s, fmt) ==
    LET ds == {d \in 1..9 :
                 s \in (IF fmt = "%d-%b-%Y" THEN FormsDbY(d) ELSE FormsdBY(d))}
    IN IF ds = {} THEN [ok |-> FALSE, value |-> [day |-> 0, time |-> Midnight]]
       ELSE [ok |-> TRUE,
             value |-> [day |-> CHOOSE d \in ds : TRUE, time |-> Midnight]]

\* No datetime: what parse_date returns for a text it cannot read.
NoDate == [ok |-> FALSE, value |-> [day |-> 0, time |-> Midnight]]

\* parse_date taking the current time for a text it cannot read.
RECURSIVE parse_date_OrNow(_, _)
parse_date_OrNow(date_str, formats) ==
    IF ~Truthy(date_str) THEN [ok |-> TRUE, value |-> Now]
    ELSE IF formats = << >> THEN [ok |-> TRUE, value |-> Now]
    ELSE LET r == Strptime(clean_text(date_str), Head(formats))
         IN IF r.ok THEN r ELSE parse_date_OrNow(date_str, Tail(formats))

\* BaseScraper.parse_date: the first format that reads the stripped text.
RECURSIVE parse_date(_, _)
parse_date(date_str, formats) ==
    IF ~Truthy(date_str) THEN NoDate
    ELSE IF formats = << >> THEN NoDate
    ELSE LET r == Strptime(clean_text(date_str), Head(formats))
         IN IF r.ok THEN r ELSE parse_date(date_str, Tail(formats))

\* CASMHRAScraper.parse_alert_table on the rows below the header: a row
\* with fewer than five cells, or without a date that has the pattern and
\* can be read, gives no Alert.
RECURSIVE parse_alert_table(_)
parse_alert_table(rows) ==
    IF rows = << >> THEN << >>
    ELSE LET row == Head(rows)
             issue_date_str == clean_text(row.issue_date)
             issue_date == IF date_pattern(issue_date_str)
                           THEN parse_date(issue_date_str, <<"%d-%b-%Y">>)
                           ELSE NoDate
             rest == parse_alert_table(Tail(rows))
         IN IF row.cols >= 5 /\ issue_date.ok
            THEN <<CASAlert(clean_text(row.reference), clean_text(row.title),
                            clean_text(row.originator), issue_date.value,
                            row.detail)>> \o rest
            ELSE rest

\* GOVUKScraper.parse_alert_list: an item without a title, a link or a
\* date that can be read gives no Alert.
RECURSIVE parse_alert_list(_)
parse_alert_list(alert_items) ==
    IF alert_items = << >> THEN << >>
    ELSE LET item == Head(alert_items)
             title == clean_text(item.title)
             alert_url == item.href
             issue_date == parse_date(clean_text(item.date), <<"%d %B %Y">>)
             rest == parse_alert_list(Tail(alert_items))
         IN IF Truthy(title) /\ Truthy(alert_url) /\ issue_date.ok
            THEN <<GOVUKAlert(alert_url, title, issue_date.value,
                              item.detail)>> \o rest
            ELSE rest

\* A request in handle_request_errors: the GET attempts made, the failed
\* ones among them, the retries argument of the running call and what the
\* outermost call returned ("pending" while it runs).
NoRequest ==
    [url |-> 0, retries |-> 0, attempts |-> 0, failed |-> 0,
     result |-> "idle"]

NewRequest(url) ==
    [url |-> url, retries |-> 0, attempts |-> 0, failed |-> 0,
     result |-> "pending"]

\* One GET that retries once more than MAX_RETRIES allows.
handle_request_errors_OneMore(req, ok) ==
    IF ok
    THEN [req EXCEPT !.attempts = @ + 1, !.result = "response"]
    ELSE IF req.retries <= MAX_RETRIES
    THEN [req EXCEPT !.attempts = @ + 1, !.failed = @ + 1,
                     !.retries = @ + 1]
    ELSE [req EXCEPT !.attempts = @ + 1, !.failed = @ + 1,
                     !.result = "None"]

\* BaseScraper.handle_request_errors, one GET of it: the response is
\* returned, or the call is made again with retries + 1, or None is
\* returned.
handle_request_errors(req, ok) ==
    IF ok
    THEN [req EXCEPT !.attempts = @ + 1, !.result = "response"]
    ELSE IF req.retries < MAX_RETRIES
    THEN [req EXCEPT !.attempts = @ + 1, !.failed = @ + 1,
                     !.retries = @ + 1]
    ELSE [req EXCEPT !.attempts = @ + 1, !.failed = @ + 1,
                     !.result = "None"]

(***************************************************************************)
(* The worksheet and its rows (data/models.py, data/processor.py,          *)
(* storage/google_sheets.py).  A row holds the text of its cells.          *)
(***************************************************************************)

\* The time of day as strftime('%H:%M:%S') and isoformat() write it.
TimeChars(t) ==
    IF t = Midnight THEN <<"0", "0", ":", "0", "0", ":", "0", "0">>
    ELSE <<"1", "2", ":", "0", "0", ":", "0", "0">>

\* scraped_at.strftime('%Y-%m-%d %H:%M:%S')
StrftimeYmdHMS(dt) == StrftimeYmd(dt) \o <<" ">> \o TimeChars(dt.time)

\* to_dict writing a newly generated hash.
ToDict_FreshHash(a) ==
    [Reference |-> a.reference, Title |-> a.title,
     Originator |-> a.originator, IssueDate |-> StrftimeYmd(a.issue_date),
     Status |-> a.status, AlertType |-> a.alert_type,
     Source |-> a.source, URL |-> a.url,
     MedicalSpecialty |-> IF a.medical_specialty = None THEN EMPTY
                          ELSE a.medical_specialty,
     ScrapedAt |-> StrftimeYmdHMS(a.scraped_at),
     HashID |-> GenerateHash(a)]

\* Alert.to_dict: the cells of the columns the model follows.
ToDict(a) ==
    [Reference |-> a.reference, Title |-> a.title,
     Originator |-> a.originator, IssueDate |-> StrftimeYmd(a.issue_date),
     Status |-> a.status, AlertType |-> a.alert_type,
     Source |-> a.source, URL |-> a.url,
     MedicalSpecialty |-> IF a.medical_specialty = None THEN EMPTY
                          ELSE a.medical_specialty,
     ScrapedAt |-> StrftimeYmdHMS(a.scraped_at),
     HashID |-> a.hash_id]

\* datetime.strptime(s, '%Y-%m-%d'): the datetime when s has exactly that
\* form, a ValueError (ok = FALSE) otherwise.
StrptimeYmd(s) ==
    LET ds == {d \in 1..9 : s = StrftimeYmd([day |-> d, time |-> Midnight])}
    IN IF ds = {} THEN [ok |-> FALSE, value |-> [day |-> 0, time |-> Midnight]]
       ELSE [ok |-> TRUE,
             value |-> [day |-> CHOOSE d \in ds : TRUE, time |-> Midnight]]

\* datetime.strptime(s, '%Y-%m-%d %H:%M:%S'), likewise.
StrptimeYmdHMS(s) ==
    LET ds == {dt \in [day : 1..9, time : {Midnight, Noon}] :
                  s = StrftimeYmdHMS(dt)}
    IN IF ds = {} THEN [ok |-> FALSE, value |-> [day |-> 0, time |-> Midnight]]
       ELSE [ok |-> TRUE, value |-> CHOOSE dt \in ds : TRUE]

\* Timestamp.isoformat() of a pandas Timestamp.
Isoformat(ts) == StrftimeYmd(ts) \o <<"T">> \o TimeChars(ts.time)

\* DataProcessor.alerts_to_dataframe on one record: to_dict, then
\* pd.to_datetime turns the 'Issue Date' and 'Scraped At' texts into
\* Timestamps.
AlertToDataframeRow(a) ==
    LET d == ToDict(a)
    IN [d EXCEPT !.IssueDate = StrptimeYmd(d.IssueDate).value,
                 !.ScrapedAt = StrptimeYmdHMS(d.ScrapedAt).value]

\* The row update_with_new_alerts appends for one record: the datetime
\* columns are turned into text with isoformat().
RowToAppend(a) ==
    LET r == AlertToDataframeRow(a)
    IN [r EXCEPT !.IssueDate = Isoformat(r.IssueDate),
                 !.ScrapedAt = Isoformat(r.ScrapedAt)]

\* Alert.from_dict on a row read back with get_all_records: ok = FALSE when
\* strptime raises.  now is datetime.now().
FromDict(data, now) ==
    LET parsed == StrptimeYmd(data.IssueDate)
        issue_date == IF data.IssueDate = EMPTY THEN now ELSE parsed.value
        scraped == StrptimeYmdHMS(data.ScrapedAt)
        scraped_at == IF data.ScrapedAt = EMPTY THEN now ELSE scraped.value
    IN [ok |-> /\ (data.IssueDate = EMPTY \/ parsed.ok)
               /\ (data.ScrapedAt = EMPTY \/ scraped.ok),
        alert |-> NewAlert(data.Reference, data.Title, data.Originator,
                           issue_date, data.Status, data.AlertType,
                           data.Source, data.URL,
                           IF data.MedicalSpecialty = EMPTY THEN None
                           ELSE data.MedicalSpecialty,
                           scraped_at, data.HashID)]

\* DataProcessor.dataframe_to_alerts: a row that raises is logged and skipped.
RECURSIVE DataframeToAlerts(_, _)
DataframeToAlerts(rows, now) ==
    IF rows = << >> THEN << >>
    ELSE LET r == FromDict(Head(rows), now)
             rest == DataframeToAlerts(Tail(rows), now)
         IN IF r.ok THEN <<r.alert>> \o rest ELSE rest

\* GoogleSheetsManager.get_existing_alerts: an exception while reading is
\* logged and the empty list returned.
GetExistingAlerts(rows, read_ok, now) ==
    IF read_ok THEN DataframeToAlerts(rows, now) ELSE << >>

\* The planning loop of update_with_new_alerts from position i on; the
\* result holds the positions (in new_alerts) appended to alerts_to_add.
RECURSIVE PlanLoop(_, _, _, _, _)
PlanLoop(new_alerts, i, alerts_to_add, existing_hashes, existing_references) ==
    IF i > Len(new_alerts) THEN alerts_to_add
    ELSE LET alert == new_alerts[i] IN
         IF Truthy(alert.hash_id) /\ alert.hash_id \in existing_hashes
         THEN PlanLoop(new_alerts, i + 1, alerts_to_add,
                       existing_hashes, existing_references)
         ELSE IF Truthy(alert.reference)
                 /\ alert.reference \in existing_references
         THEN PlanLoop(new_alerts, i + 1, alerts_to_add,
                       existing_hashes, existing_references)
         ELSE PlanLoop(new_alerts, i + 1, Append(alerts_to_add, i),
                       IF Truthy(alert.hash_id)
                       THEN existing_hashes \cup {alert.hash_id}
                       ELSE existing_hashes,
                       IF Truthy(alert.reference)
                       THEN existing_references \cup {alert.reference}
                       ELSE existing_references)

\* The planning step with the detector run against the known records too.
PlanIdx_Detector(existing_alerts, new_alerts) ==
    LET New(i) == \A k \in 1..Len(existing_alerts) :
                      ~IsDuplicate(existing_alerts[k], new_alerts[i])
    IN SelectSeq(
         PlanLoop(new_alerts, 1, << >>,
                  {a.hash_id : a \in {x \in Range(existing_alerts) : Truthy(x.hash_id)}},
                  {a.reference : a \in {x \in Range(existing_alerts) : Truthy(x.reference)}}),
         New)

\* The planning step with the known hash_ids alone.
PlanIdx_HashOnly(existing_alerts, new_alerts) ==
    PlanLoop(new_alerts, 1, << >>,
             {a.hash_id : a \in {x \in Range(existing_alerts) : Truthy(x.hash_id)}},
             {})

\* The positions of new_alerts the planning step accepts.
PlanIdx(existing_alerts, new_alerts) ==
    PlanLoop(new_alerts, 1, << >>,
             {a.hash_id : a \in {x \in Range(existing_alerts) : Truthy(x.hash_id)}},
             {a.reference : a \in {x \in Range(existing_alerts) : Truthy(x.reference)}})

\* The known records planned for appending too.
AlertsToAdd_WithKnown(existing_alerts, new_alerts) ==
    existing_alerts \o Pick(new_alerts, PlanIdx(existing_alerts, new_alerts))

AlertsToAdd(existing_alerts, new_alerts) ==
    Pick(new_alerts, PlanIdx(existing_alerts, new_alerts))


\* remove_duplicates deleting the duplicates from the list it was given.
RemoveDuplicatesCall_InPlace(alerts) ==
    [fn |-> "remove_duplicates",
     args |-> <<alerts>>,
     after |-> <<RemoveDuplicates(alerts)>>,
     result |-> RemoveDuplicates(alerts)]

\* One call of remove_duplicates, and below one of the planning loop: the
\* arguments as given, the arguments as the call leaves them, the result.
RemoveDuplicatesCall(alerts) ==
    [fn |-> "remove_duplicates",
     args |-> <<alerts>>,
     after |-> <<alerts>>,
     result |-> RemoveDuplicates(alerts)]

\* The planning loop adding the accepted records to the known ones.
PlanCall_ExtendsKnown(existing_alerts, new_alerts) ==
    [fn |-> "plan",
     args |-> <<existing_alerts, new_alerts>>,
     after |-> <<existing_alerts \o AlertsToAdd(existing_alerts, new_alerts),
                new_alerts>>,
     result |-> AlertsToAdd(existing_alerts, new_alerts)]

PlanCall(existing_alerts, new_alerts) ==
    [fn |-> "plan",
     args |-> <<existing_alerts, new_alerts>>,
     after |-> <<existing_alerts, new_alerts>>,
     result |-> AlertsToAdd(existing_alerts, new_alerts)]

\* A hash that is not the hash of the record's own fields: a row's Hash ID
\* cell, or the hash of a record whose fields were changed after construction.
StaleHash == Md5(<<"x">>)

\* Records for the detector: a pair is compared.
DetectorAlerts ==
    { Alert(r, t, o, dt, s, None) :
        r \in {EMPTY, R1, R2},
        t \in {tA, tB, tU, t85a, t85b, t84a, t84b, EMPTY},
        o \in {O1, O2},
        dt \in {Day(1), Day(2), [day |-> 1, time |-> Noon]},
        s \in {"CAS", "GOVUK"} }
    \cup
    { Alert(r, t, O1, dt, s, h) :
        r \in {EMPTY, R1, R2},
        t \in {tA, tB, tU, t85a, t85b, t84a, t84b, EMPTY},
        dt \in {Day(1), Day(2), [day |-> 1, time |-> Noon]},
        s \in {"CAS", "GOVUK"},
        h \in {EMPTY, StaleHash} }

\* Records for the engine: sequences of up to MaxLen of them are deduplicated.
EngineAlerts ==
    { Alert(r, t, O1, Day(1), s, None) :
        r \in {EMPTY, R1},
        t \in {tA, tB, tC},
        s \in {"CAS", "GOVUK"} }
    \cup
    { Alert(r, t, O1, Day(1), s, StaleHash) :
        r \in {EMPTY, R1},
        t \in {tA, tB},
        s \in {"CAS", "GOVUK"} }

\* What the scrapers can hand on for the store update: CAS rows and GOV.UK
\* items, with a detail page that was not fetched or that replaced a field
\* after the hash was generated.
NoCasDetail == [fetched |-> FALSE, originator |-> EMPTY]

NoGovukDetail ==
    [fetched |-> FALSE, h1 |-> None, published |-> NoDatetime,
     dmrc |-> None]

U1 == <<"/", "u", "1">>

ScrapedCAS ==
    { CASAlert(r, tB, o, Day(1), d) :
        r \in {EMPTY, R1},
        o \in {O1, O2},
        d \in {NoCasDetail, [fetched |-> TRUE, originator |-> O2],
               [fetched |-> TRUE, originator |-> EMPTY]} }

ScrapedGOVUK ==
    { GOVUKAlert(U1, tA, Day(1), d) :
        d \in {NoGovukDetail,
               [NoGovukDetail EXCEPT !.fetched = TRUE, !.h1 = tB],
               [NoGovukDetail EXCEPT !.fetched = TRUE, !.dmrc = R1]} }

\* The candidates of the planning step: scraped records, and records given
\* an empty hash_id, with and without a reference.
PlannerAlerts ==
    ScrapedCAS \cup ScrapedGOVUK
        \cup {Alert(R2, tB, O1, Day(1), "CAS", EMPTY),
              Alert(EMPTY, tB, O1, Day(1), "CAS", EMPTY)}

\* The rows a worksheet may hold when a run starts: rows in the form to_dict
\* gives, rows without a Hash ID, and a row as update_with_new_alerts
\* appends it.
PlannerRows ==
    {ToDict(a) : a \in PlannerAlerts \ ScrapedGOVUK}
        \cup {RowToAppend(Alert(R1, tB, O1, Day(1), "CAS", None))}

\* What the two scrapers return in a run of main.
RunCAS ==
    { CASAlert(R1, tB, O1, Day(1), d) :
        d \in {NoCasDetail, [fetched |-> TRUE, originator |-> O2]} }

RunGOVUK ==
    { GOVUKAlert(U1, tB, Day(1), d) :
        d \in {NoGovukDetail,
               [NoGovukDetail EXCEPT !.fetched = TRUE, !.h1 = tA],
               [NoGovukDetail EXCEPT !.fetched = TRUE, !.dmrc = R1]} }

\* The texts of the cells of the model's pages.
TextDbY(d) == <<" ", "0", Digits[d + 1], "-", "J", "a", "n", "-", "2", "0", "2", "5", " ">>

TextdBY(d) == <<Digits[d + 1], " ", "J", "a", "n", "u", "a", "r", "y", " ", "2", "0", "2", "5">>

NoSuchDay == <<"3", "1", "-", "F", "e", "b", "-", "2", "0", "2", "5">>

IsoDay == <<"2", "0", "2", "5", "-", "0", "1", "-", "0", "1">>

\* The rows of CAS page p: a row dated day p of January 2025, and rows
\* with a date that does not exist, with a date in another form and with
\* no date.
CasRow(p, date) ==
    [cols |-> 5, reference |-> R1, title |-> tB \o <<" ">>,
     originator |-> O1, issue_date |-> date, detail |-> NoCasDetail]

CasPages(p) ==
    {<< >>, <<CasRow(p, TextDbY(p))>>, <<CasRow(p, NoSuchDay)>>,
     <<CasRow(p, IsoDay)>>, <<CasRow(p, EMPTY)>>,
     <<[CasRow(p, TextDbY(p)) EXCEPT !.cols = 4]>>,
     <<CasRow(p, NoSuchDay), CasRow(p, TextDbY(p))>>}

\* The items of GOV.UK page p: an item dated day p of January 2025, the
\* same with a detail page published on day 9, and items with a date that
\* cannot be read, with no date and with no link.
GovukItem(p, href, date) ==
    [title |-> tB, href |-> href, date |-> date, detail |-> NoGovukDetail]

GovukPages(p) ==
    {<< >>, <<GovukItem(p, U1, TextdBY(p))>>,
     <<[GovukItem(p, U1, TextdBY(p)) EXCEPT
           !.detail = [NoGovukDetail EXCEPT !.fetched = TRUE,
                                            !.published = Day(9)]]>>,
     <<GovukItem(p, U1, NoSuchDay)>>, <<GovukItem(p, U1, EMPTY)>>,
     <<GovukItem(p, EMPTY, TextdBY(p))>>,
     <<GovukItem(p, U1, EMPTY), GovukItem(p, U1, TextdBY(p))>>}

\* The scrapers before the first request.
NoCrawl ==
    [log |-> << >>, rows |-> << >>, parsed |-> << >>, alerts |-> << >>,
     cas_alerts |-> << >>, todo |-> << >>, page |-> 0]

\* The delete_duplicates script before it has read the sheet.
NoSweep ==
    [data_rows |-> << >>, duplicate_row_indices |-> << >>, todo |-> << >>,
     deleted |-> << >>, status |-> "none"]

SeqsUpTo(S, n) == UNION {[1..k -> S] : k \in 0..n}

VARIABLES
    pc,              \* where the run of main is
    batch,           \* the records handed to process_and_deduplicate
    all_alerts,      \* the records process_and_deduplicate returned
    verdict,         \* the result of is_duplicate(batch[1], batch[2])
    store,           \* the data rows of the worksheet
    existing_alerts, \* update_with_new_alerts: the records read from the store
    alerts_to_add,   \* update_with_new_alerts: the records it accepted
    new_count,       \* what update_with_new_alerts returned
    restored,        \* from_dict(to_dict(a)) of the records, once and twice
    replanned,       \* the planning loop run again on the known records
                     \* extended with the accepted ones
    calls,           \* the calls of remove_duplicates and of the planning
                     \* loop made so far: arguments before and after, result
    request,         \* the running or last call of handle_request_errors
    crawl,           \* the scrapers: pages requested, self.alerts, the page
                     \* read last
    outcome,         \* the notifications main sent and its exit status
    sweep            \* the delete_duplicates script: the rows it read, the
                     \* row indices it found and those it has deleted

vars == <<pc, batch, all_alerts, verdict, store, existing_alerts,
          alerts_to_add, new_count, restored, replanned, calls, request,
          crawl, outcome, sweep>>

scrapeVars == <<request, crawl, outcome>>

auxVars == <<restored, replanned, calls, scrapeVars, sweep>>

storeVars == <<store, existing_alerts, alerts_to_add, new_count>>

InitStore ==
    /\ store = << >>
    /\ existing_alerts = << >>
    /\ alerts_to_add = << >>
    /\ new_count = 0
    /\ restored = [once |-> << >>, twice |-> << >>]
    /\ replanned = [candidates |-> << >>, accepted |-> << >>]
    /\ calls = << >>
    /\ request = NoRequest
    /\ crawl = NoCrawl
    /\ outcome = [notices |-> << >>, exit_status |-> "none"]
    /\ sweep = NoSweep

(***************************************************************************)
(* The detector on a pair of records.                                      *)
(***************************************************************************)
InitDetector ==
    /\ pc = "pair"
    /\ batch = << >>
    /\ all_alerts = << >>
    /\ verdict = FALSE
    /\ InitStore

DrawDetectorInput ==
    /\ pc = "pair"
    /\ Len(batch) < 2
    /\ \E a \in DetectorAlerts : batch' = Append(batch, a)
    /\ UNCHANGED <<auxVars, pc, all_alerts, verdict, storeVars>>

Compare ==
    /\ pc = "pair"
    /\ Len(batch) = 2
    /\ verdict' = IsDuplicate(batch[1], batch[2])
    /\ pc' = "compared"
    /\ UNCHANGED <<auxVars, batch, all_alerts, storeVars>>

NextDetector == DrawDetectorInput \/ Compare

SpecDetector == InitDetector /\ [][NextDetector]_vars

(***************************************************************************)
(* The engine on a sequence of records: any pair of DetectorAlerts, and    *)
(* the sequences of up to MaxLen EngineAlerts.                             *)
(***************************************************************************)
InitEngine ==
    /\ pc = "scraped"
    /\ batch = << >>
    /\ all_alerts = << >>
    /\ verdict = FALSE
    /\ InitStore

DrawPair ==
    /\ pc = "scraped"
    /\ Len(batch) < 2
    /\ \E a \in DetectorAlerts : batch' = Append(batch, a)
    /\ UNCHANGED <<auxVars, pc, all_alerts, verdict, storeVars>>

DrawEngineInput ==
    /\ pc = "scraped"
    /\ Len(batch) < MaxLen
    /\ Range(batch) \subseteq EngineAlerts
    /\ \E a \in EngineAlerts : batch' = Append(batch, a)
    /\ UNCHANGED <<auxVars, pc, all_alerts, verdict, storeVars>>

\* main: all_alerts = processor.process_and_deduplicate(cas_alerts + govuk_alerts)
Deduplicate ==
    /\ pc = "scraped"
    /\ all_alerts' = ProcessAndDeduplicate(batch)
    /\ pc' = "deduped"
    /\ UNCHANGED <<auxVars, batch, verdict, storeVars>>

NextEngine == DrawPair \/ DrawEngineInput \/ Deduplicate

SpecEngine == InitEngine /\ [][NextEngine]_vars

(***************************************************************************)
(* GoogleSheetsManager.update_with_new_alerts(all_alerts).  authenticate   *)
(* and open_sheet_and_worksheet raise or succeed; an exception while       *)
(* reading or appending is caught inside.  The worksheet keeps the text it *)
(* is sent.                                                                *)
(***************************************************************************)
UpdateRaises ==
    /\ pc = "deduped"
    /\ pc' = "failed"
    /\ UNCHANGED <<auxVars, batch, all_alerts, verdict, storeVars>>

\* update_with_new_alerts returning the number of candidates it was given.
UpdateReturns_CountsCandidates ==
    /\ pc = "deduped"
    /\ \E read_ok \in BOOLEAN, append_ok \in BOOLEAN :
          LET existing == GetExistingAlerts(store, read_ok, Now)
              to_add == AlertsToAdd(existing, all_alerts)
              rows == [k \in 1..Len(to_add) |-> RowToAppend(to_add[k])]
          IN /\ existing_alerts' = existing
             /\ alerts_to_add' = to_add
             /\ IF to_add = << >>
                THEN store' = store /\ new_count' = 0
                ELSE IF append_ok
                THEN store' = store \o rows /\ new_count' = Len(all_alerts)
                ELSE store' = store /\ new_count' = 0
    /\ pc' = "updated"
    /\ UNCHANGED <<auxVars, batch, all_alerts, verdict>>

UpdateReturns ==
    /\ pc = "deduped"
    /\ \E read_ok \in BOOLEAN, append_ok \in BOOLEAN :
          LET existing == GetExistingAlerts(store, read_ok, Now)
              to_add == AlertsToAdd(existing, all_alerts)
              rows == [k \in 1..Len(to_add) |-> RowToAppend(to_add[k])]
          IN /\ existing_alerts' = existing
             /\ alerts_to_add' = to_add
             /\ IF to_add = << >>
                THEN store' = store /\ new_count' = 0
                ELSE IF append_ok
                THEN store' = store \o rows /\ new_count' = Len(to_add)
                ELSE store' = store /\ new_count' = 0
    /\ pc' = "updated"
    /\ UNCHANGED <<auxVars, batch, all_alerts, verdict>>

UpdateWithNewAlerts == UpdateRaises \/ UpdateReturns

(***************************************************************************)
(* The store update on a worksheet of up to MaxKnown rows and up to        *)
(* MaxCand candidates.                                                     *)
(***************************************************************************)
InitPlanner ==
    /\ pc = "deduped"
    /\ batch = << >>
    /\ all_alerts = << >>
    /\ verdict = FALSE
    /\ InitStore

DrawRow ==
    /\ pc = "deduped"
    /\ Len(store) < MaxKnown
    /\ \E r \in PlannerRows : store' = Append(store, r)
    /\ UNCHANGED <<auxVars, pc, batch, all_alerts, verdict, existing_alerts,
                   alerts_to_add, new_count>>

DrawCandidate ==
    /\ pc = "deduped"
    /\ Len(all_alerts) < MaxCand
    /\ \E a \in PlannerAlerts : all_alerts' = Append(all_alerts, a)
    /\ UNCHANGED <<auxVars, pc, batch, verdict, storeVars>>

\* The planning loop once more, on the known records extended with the
\* accepted ones: over the same candidates, and over the accepted ones.
PlanAgain ==
    /\ pc = "updated"
    /\ LET known == existing_alerts \o alerts_to_add
       IN replanned' = [candidates |-> AlertsToAdd(known, all_alerts),
                        accepted |-> AlertsToAdd(known, alerts_to_add)]
    /\ pc' = "replanned"
    /\ UNCHANGED <<batch, all_alerts, verdict, storeVars, restored, calls,
                   scrapeVars, sweep>>

NextPlanner ==
    DrawRow \/ DrawCandidate \/ UpdateRaises \/ UpdateReturns \/ PlanAgain

SpecPlanner == InitPlanner /\ [][NextPlanner]_vars

(***************************************************************************)
(* Alert records: up to MaxBuilt records are constructed without a hash_id *)
(* and up to MaxRebuilt are reconstructed from rows, then each is written  *)
(* with to_dict and read with from_dict, once and twice.                   *)
(***************************************************************************)
\* The fields the hash does not read, in two variants.
RecordRest ==
    { [status |-> "Issued", alert_type |-> "Unknown", source |-> "CAS",
       url |-> CAS_URL, medical_specialty |-> None,
       scraped_at |-> NoDatetime],
      [status |-> "Closed", alert_type |-> "CMO Messaging",
       source |-> "GOVUK", url |-> U1, medical_specialty |-> <<"m">>,
       scraped_at |-> Day(3)] }

\* Rows with a blank and with a foreign Hash ID cell, a row without the
\* Hash ID column, and a row with a blank date.
RecordRows ==
    { [ToDict(Alert(R1, tB, O1, Day(1), "CAS", None)) EXCEPT !.HashID = h] :
        h \in {EMPTY, StaleHash, None} }
    \cup
    { [ToDict(Alert(EMPTY, tU, O2, Day(2), "GOVUK", None))
          EXCEPT !.IssueDate = EMPTY, !.HashID = EMPTY] }

\* from_dict(to_dict(a)): [ok, alert].
RoundTrip(a) == FromDict(ToDict(a), Now)

InitRecord ==
    /\ pc = "construct"
    /\ batch = << >>
    /\ all_alerts = << >>
    /\ verdict = FALSE
    /\ InitStore

\* Alert(...) with no hash_id given, as the scrapers call it.
Construct ==
    /\ pc = "construct"
    /\ Len(batch) < MaxBuilt
    /\ \E r \in {EMPTY, R1}, t \in {tB, tU},
          dt \in {Day(1), Day(2), [day |-> 1, time |-> Noon]},
          x \in RecordRest :
          batch' = Append(batch,
                          NewAlert(r, t, O1, dt, x.status, x.alert_type,
                                   x.source, x.url, x.medical_specialty,
                                   x.scraped_at, None))
    /\ UNCHANGED <<auxVars, pc, all_alerts, verdict, storeVars>>

\* Alert.from_dict(row), as dataframe_to_alerts calls it.
Reconstruct ==
    /\ pc = "construct"
    /\ Len(existing_alerts) < MaxRebuilt
    /\ \E row \in RecordRows :
          existing_alerts' = Append(existing_alerts, FromDict(row, Now).alert)
    /\ UNCHANGED <<auxVars, pc, batch, all_alerts, verdict, store,
                   alerts_to_add, new_count>>

WriteAndRead ==
    /\ pc = "construct"
    /\ LET records == batch \o existing_alerts
           once == [k \in 1..Len(records) |-> RoundTrip(records[k])]
       IN restored' = [once |-> once,
                       twice |-> [k \in 1..Len(records) |->
                                     RoundTrip(once[k].alert)]]
    /\ pc' = "restored"
    /\ UNCHANGED <<batch, all_alerts, verdict, storeVars, replanned, calls,
                   scrapeVars, sweep>>

NextRecord == Construct \/ Reconstruct \/ WriteAndRead

SpecRecord == InitRecord /\ [][NextRecord]_vars

(***************************************************************************)
(* The three functions in a row on records with and without a reference    *)
(* and a hash_id: up to MaxCore records are drawn, a pair is compared, the *)
(* records are deduplicated and planned against a worksheet of up to       *)
(* MaxKnown rows.                                                          *)
(***************************************************************************)
CoreAlerts ==
    { Alert(r, t, O1, Day(1), s, h) :
        r \in {EMPTY, R1},
        t \in {tB, t84a},
        s \in {"CAS", "GOVUK"},
        h \in {None, EMPTY} }

CoreRows ==
    { ToDict(Alert(r, tB, O1, Day(1), "CAS", h)) :
        r \in {EMPTY, R1}, h \in {None, EMPTY} }

DrawCoreInput ==
    /\ pc = "pair"
    /\ Len(batch) < MaxCore
    /\ \E a \in CoreAlerts : batch' = Append(batch, a)
    /\ UNCHANGED <<auxVars, pc, all_alerts, verdict, storeVars>>

\* The records drawn are what the scrapers returned.
HandOver ==
    /\ pc \in {"pair", "compared"}
    /\ pc' = "scraped"
    /\ UNCHANGED <<auxVars, batch, all_alerts, verdict, storeVars>>

DrawCoreRow ==
    /\ pc = "deduped"
    /\ Len(store) < MaxKnown
    /\ \E r \in CoreRows : store' = Append(store, r)
    /\ UNCHANGED <<auxVars, pc, batch, all_alerts, verdict, existing_alerts,
                   alerts_to_add, new_count>>

NextCore ==
    \/ DrawCoreInput
    \/ Compare
    \/ HandOver
    \/ Deduplicate
    \/ DrawCoreRow
    \/ UpdateRaises
    \/ UpdateReturns

SpecCore == InitDetector /\ [][NextCore]_vars

(***************************************************************************)
(* Calls of remove_duplicates and of the planning loop in any order, up to *)
(* MaxCalls of them, on a few argument lists.  remove_duplicates only      *)
(* reads alerts and appends its records to new lists; the planning loop    *)
(* only reads existing_alerts and new_alerts and fills sets and a list it  *)
(* creates.                                                                *)
(***************************************************************************)
CallAlerts ==
    {Alert(R1, tB, O1, Day(1), "CAS", None),
     Alert(R2, t84a, O1, Day(1), "CAS", None)}

CallLists ==
    {<< >>} \cup {<<a>> : a \in CallAlerts}
            \cup {<<a, b>> : a \in CallAlerts, b \in CallAlerts}

CallKnown == {<< >>} \cup {<<a>> : a \in CallAlerts}

InitCalls ==
    /\ pc = "calls"
    /\ batch = << >>
    /\ all_alerts = << >>
    /\ verdict = FALSE
    /\ InitStore

CallRemoveDuplicates ==
    /\ pc = "calls"
    /\ Len(calls) < MaxCalls
    /\ \E alerts \in CallLists :
          calls' = Append(calls, RemoveDuplicatesCall(alerts))
    /\ UNCHANGED <<pc, batch, all_alerts, verdict, storeVars, restored,
                   replanned, scrapeVars, sweep>>

CallPlan ==
    /\ pc = "calls"
    /\ Len(calls) < MaxCalls
    /\ \E known \in CallKnown, new_alerts \in CallLists :
          calls' = Append(calls, PlanCall(known, new_alerts))
    /\ UNCHANGED <<pc, batch, all_alerts, verdict, storeVars, restored,
                   replanned, scrapeVars, sweep>>

NextCalls == CallRemoveDuplicates \/ CallPlan

SpecCalls == InitCalls /\ [][NextCalls]_vars

(***************************************************************************)
(* The first run: sequences of up to MaxLen EngineAlerts are deduplicated  *)
(* and handed to update_with_new_alerts on a worksheet with its header     *)
(* alone.                                                                  *)
(***************************************************************************)
NextFirstRun ==
    DrawEngineInput \/ Deduplicate \/ UpdateRaises \/ UpdateReturns

SpecFirstRun == InitEngine /\ [][NextFirstRun]_vars

(***************************************************************************)
(* main, run after run on a worksheet that starts with its header alone.   *)
(***************************************************************************)
Init ==
    /\ pc = "start"
    /\ batch = << >>
    /\ all_alerts = << >>
    /\ verdict = FALSE
    /\ InitStore

\* cas_alerts = cas_scraper.scrape(); govuk_alerts = govuk_scraper.scrape()
Scrape ==
    /\ pc = "start"
    /\ Len(store) < MaxStore
    /\ \E cas_alerts \in SeqsUpTo(RunCAS, MaxScrape),
          govuk_alerts \in SeqsUpTo(RunGOVUK, MaxScrape) :
          batch' = cas_alerts \o govuk_alerts
    /\ pc' = "scraped"
    /\ UNCHANGED <<auxVars, all_alerts, verdict, storeVars>>

\* The job ends (with the error notice and exit status 1 after an
\* exception) and is started again.
NextRun ==
    /\ pc \in {"updated", "failed"}
    /\ pc' = "start"
    /\ batch' = << >>
    /\ all_alerts' = << >>
    /\ existing_alerts' = << >>
    /\ alerts_to_add' = << >>
    /\ new_count' = 0
    /\ UNCHANGED <<auxVars, verdict, store>>

Next == Scrape \/ Deduplicate \/ UpdateRaises \/ UpdateReturns \/ NextRun

Spec == Init /\ [][Next]_vars

(***************************************************************************)
(* main with the scrapers page by page: the CAS scraper reads its first    *)
(* page through handle_request_errors and the pages linked from it by      *)
(* postback, the GOV.UK scraper follows the next-page links through        *)
(* handle_request_errors; each site has up to MaxPages pages.  Then the    *)
(* records are deduplicated, the store is updated and main sends its       *)
(* notification.  crawl.log holds, per page requested, the scraper, the    *)
(* page number, whether it loaded and the records parsed from it.          *)
(***************************************************************************)
LogPage(scraper, page, loaded, alerts) ==
    [scraper |-> scraper, page |-> page, loaded |-> loaded, alerts |-> alerts]

\* The worksheet when main starts: empty, or holding the records of page 1
\* of both sites.
MainStores ==
    {<< >>,
     <<ToDict(Alert(R1, tB, O1, Day(1), "CAS", None)),
       ToDict(GOVUKAlert(U1, tB, Day(1), NoGovukDetail))>>}

InitMain ==
    /\ pc = "cas_initial"
    /\ batch = << >>
    /\ all_alerts = << >>
    /\ verdict = FALSE
    /\ store \in MainStores
    /\ existing_alerts = << >>
    /\ alerts_to_add = << >>
    /\ new_count = 0
    /\ restored = [once |-> << >>, twice |-> << >>]
    /\ replanned = [candidates |-> << >>, accepted |-> << >>]
    /\ calls = << >>
    /\ request = NewRequest(1)
    /\ crawl = NoCrawl
    /\ outcome = [notices |-> << >>, exit_status |-> "none"]
    /\ sweep = NoSweep

mainVars == <<batch, all_alerts, verdict, storeVars, restored, replanned, calls, sweep>>

\* One GET of handle_request_errors.
Attempt ==
    /\ pc \in {"cas_initial", "govuk"}
    /\ request.result = "pending"
    /\ \E ok \in BOOLEAN : request' = handle_request_errors(request, ok)
    /\ UNCHANGED <<pc, crawl, outcome, mainVars>>

\* CASMHRAScraper.scrape returns: GOVUKScraper.scrape starts.
CasReturns(log) ==
    /\ crawl' = [NoCrawl EXCEPT !.log = log, !.cas_alerts = crawl.alerts,
                                !.page = 1]
    /\ request' = NewRequest(1)
    /\ pc' = "govuk"

\* CASMHRAScraper.scrape up to the loop over the other pages: without the
\* first page, or without its ViewState and EventValidation, it returns [].
CasInitialPage ==
    /\ pc = "cas_initial"
    /\ request.result \in {"response", "None"}
    /\ \E tokens \in BOOLEAN, rows \in CasPages(1),
          more \in 0..(MaxPages - 1) :
          IF request.result = "None" \/ ~tokens
          THEN /\ crawl' = [NoCrawl EXCEPT
                               !.log = <<LogPage("CAS", 1, FALSE, << >>)>>,
                               !.page = 1]
               /\ request' = NewRequest(1)
               /\ pc' = "govuk"
          ELSE LET alerts == parse_alert_table(rows)
               IN /\ crawl' = [crawl EXCEPT
                        !.log = <<LogPage("CAS", 1, TRUE, alerts)>>,
                        !.rows = rows, !.parsed = alerts, !.alerts = alerts,
                        !.todo = [k \in 1..more |-> k + 1]]
                  /\ request' = NoRequest
                  /\ pc' = "cas_pages"
    /\ UNCHANGED <<outcome, mainVars>>

\* The loop over page_numbers: a page that get_page_with_postback does not
\* return ends the loop.
CasNextPage ==
    /\ pc = "cas_pages"
    /\ IF crawl.todo = << >>
       THEN CasReturns(crawl.log)
       ELSE LET page_num == Head(crawl.todo) IN
            \/ \E rows \in CasPages(page_num) :
                  LET alerts == parse_alert_table(rows)
                  IN /\ crawl' = [crawl EXCEPT
                           !.log = Append(@, LogPage("CAS", page_num, TRUE,
                                                     alerts)),
                           !.rows = rows, !.parsed = alerts,
                           !.alerts = @ \o alerts,
                           !.todo = Tail(@)]
                     /\ UNCHANGED <<pc, request>>
            \/ CasReturns(Append(crawl.log,
                                 LogPage("CAS", page_num, FALSE, << >>)))
    /\ UNCHANGED <<outcome, mainVars>>

\* get_page_with_postback on a page whose __VIEWSTATE input has no value:
\* the KeyError is not a RequestException and leaves scrape and main's try.
PostbackRaises ==
    /\ pc = "cas_pages"
    /\ crawl.todo /= << >>
    /\ crawl' = [crawl EXCEPT
                    !.log = Append(@, LogPage("CAS", Head(crawl.todo), TRUE,
                                              << >>))]
    /\ pc' = "failed"
    /\ UNCHANGED <<request, outcome, mainVars>>

\* GOVUKScraper.scrape asking for the next page after a page that failed.
GovukPage_GoesOnAfterFailure ==
    /\ pc = "govuk"
    /\ request.result \in {"response", "None"}
    /\ \E alert_items \in GovukPages(crawl.page), has_next \in BOOLEAN :
          LET loaded == request.result = "response"
              alerts == IF loaded THEN parse_alert_list(alert_items)
                        ELSE << >>
              logged == Append(crawl.log,
                               LogPage("GOVUK", crawl.page, loaded, alerts))
          IN IF has_next /\ crawl.page < MaxPages
             THEN /\ crawl' = [crawl EXCEPT
                         !.log = logged, !.rows = << >>,
                         !.parsed = << >>, !.alerts = @ \o alerts,
                         !.page = @ + 1]
                  /\ request' = NewRequest(crawl.page + 1)
                  /\ UNCHANGED <<pc, batch>>
             ELSE /\ crawl' = [crawl EXCEPT
                         !.log = logged, !.rows = << >>,
                         !.parsed = << >>, !.alerts = @ \o alerts]
                  /\ batch' = crawl.cas_alerts \o crawl.alerts \o alerts
                  /\ request' = NoRequest
                  /\ pc' = "scraped"
    /\ UNCHANGED <<outcome, all_alerts, verdict, storeVars, restored,
                   replanned, calls, sweep>>

\* GOVUKScraper.scrape, one turn of its loop, and main's concatenation
\* when it returns.
GovukPage ==
    /\ pc = "govuk"
    /\ request.result \in {"response", "None"}
    /\ IF request.result = "None"
       THEN /\ crawl' = [crawl EXCEPT
                   !.log = Append(@, LogPage("GOVUK", crawl.page, FALSE,
                                             << >>))]
            /\ batch' = crawl.cas_alerts \o crawl.alerts
            /\ request' = NoRequest
            /\ pc' = "scraped"
       ELSE \E alert_items \in GovukPages(crawl.page), has_next \in BOOLEAN :
              LET alerts == parse_alert_list(alert_items)
                  logged == Append(crawl.log,
                                   LogPage("GOVUK", crawl.page, TRUE, alerts))
              IN IF has_next /\ crawl.page < MaxPages
                 THEN /\ crawl' = [crawl EXCEPT
                             !.log = logged, !.rows = alert_items,
                             !.parsed = alerts, !.alerts = @ \o alerts,
                             !.page = @ + 1]
                      /\ request' = NewRequest(crawl.page + 1)
                      /\ UNCHANGED <<pc, batch>>
                 ELSE /\ crawl' = [crawl EXCEPT
                             !.log = logged, !.rows = alert_items,
                             !.parsed = alerts, !.alerts = @ \o alerts]
                      /\ batch' = crawl.cas_alerts \o crawl.alerts \o alerts
                      /\ request' = NoRequest
                      /\ pc' = "scraped"
    /\ UNCHANGED <<outcome, all_alerts, verdict, storeVars, restored,
                   replanned, calls, sweep>>

\* The end of main's try block sending the notification whatever the count.
Complete_AlwaysNotifies ==
    /\ pc = "updated"
    /\ outcome' = [notices |-> <<"success">>, exit_status |-> "0"]
    /\ pc' = "done"
    /\ UNCHANGED <<request, crawl, mainVars>>

\* main after the store update: the notification when new_count > 0.
Complete ==
    /\ pc = "updated"
    /\ outcome' = [notices |-> IF new_count > 0 THEN <<"success">>
                               ELSE << >>,
                   exit_status |-> "0"]
    /\ pc' = "done"
    /\ UNCHANGED <<request, crawl, mainVars>>

\* main's except branch: the error notification and sys.exit(1).
Fail ==
    /\ pc = "failed"
    /\ outcome' = [notices |-> <<"error">>, exit_status |-> "1"]
    /\ pc' = "exited"
    /\ UNCHANGED <<request, crawl, mainVars>>

NextMain ==
    \/ Attempt
    \/ CasInitialPage
    \/ CasNextPage
    \/ PostbackRaises
    \/ GovukPage
    \/ Deduplicate
    \/ UpdateRaises
    \/ UpdateReturns
    \/ Complete
    \/ Fail

SpecMain == InitMain /\ [][NextMain]_vars

\* main runs in one thread and every request has a timeout: the step that
\* is next is taken.
SpecMainFair == SpecMain /\ WF_vars(NextMain)

(***************************************************************************)
(* scripts/delete_duplicates.py.  The worksheet is its header row followed *)
(* by the data rows of store; worksheet row 1 is the header, row k + 1 is  *)
(* store[k].  A call of the Sheets API may fail.                           *)
(***************************************************************************)
MaxSheet == 4

\* The title of the hash column.
HashIDTitle == <<"H", "a", "s", "h", " ", "I", "D">>

\* Row 1 of the worksheet: the titles of the columns.
HeaderRow ==
    [Reference |-> <<"R", "e", "f", "e", "r", "e", "n", "c", "e">>,
     Title |-> <<"T", "i", "t", "l", "e">>,
     Originator |-> <<"O", "r", "i", "g", "i", "n", "a", "t", "o", "r">>,
     IssueDate |-> <<"I", "s", "s", "u", "e", " ", "D", "a", "t", "e">>,
     Status |-> <<"S", "t", "a", "t", "u", "s">>,
     AlertType |-> <<"A", "l", "e", "r", "t", " ", "T", "y", "p", "e">>,
     Source |-> <<"S", "o", "u", "r", "c", "e">>,
     URL |-> <<"U", "R", "L">>,
     MedicalSpecialty |-> <<"M", "e", "d", "i", "c", "a", "l", " ",
                            "S", "p", "e", "c", "i", "a", "l", "t", "y">>,
     ScrapedAt |-> <<"S", "c", "r", "a", "p", "e", "d", " ", "A", "t">>,
     HashID |-> HashIDTitle]

\* The data rows a worksheet may hold: rows that differ in their title and
\* share a hash cell, the hash cell being a digest or blank.
SheetRows ==
    { [ToDict(Alert(R1, t, O1, Day(1), "CAS", None)) EXCEPT !.HashID = h] :
        t \in {tA, tB}, h \in {StaleHash, EMPTY} }
    \cup {ToDict(Alert(R1, tA, O1, Day(1), "CAS", None))}

\* worksheet.get_all_values()
GetAllValues(data_rows) == <<HeaderRow>> \o data_rows

\* The loop of delete_duplicates over enumerate(data_rows), from i on with
\* the keys of hash_ids: the row indices it appends.
RECURSIVE DuplicateRowIndices(_, _, _, _)
DuplicateRowIndices(data_rows, hash_id_index, i, hash_ids) ==
    IF i >= Len(data_rows) THEN << >>
    ELSE LET row_index == i + 2
             hash_id == data_rows[i + 1][hash_id_index]
         IN IF hash_id \in hash_ids
            THEN <<row_index>> \o
                 DuplicateRowIndices(data_rows, hash_id_index, i + 1, hash_ids)
            ELSE DuplicateRowIndices(data_rows, hash_id_index, i + 1,
                                     hash_ids \cup {hash_id})

\* sorted(row_indices)
RECURSIVE SortedReverse_Ascending(_)
SortedReverse_Ascending(row_indices) ==
    IF row_indices = << >> THEN << >>
    ELSE LET k == CHOOSE k \in 1..Len(row_indices) :
                    \A j \in 1..Len(row_indices) :
                      row_indices[k] <= row_indices[j]
             rest == [j \in 1..(Len(row_indices) - 1) |->
                        IF j < k THEN row_indices[j] ELSE row_indices[j + 1]]
         IN <<row_indices[k]>> \o SortedReverse_Ascending(rest)

\* sorted(row_indices, reverse=True)
RECURSIVE SortedReverse(_)
SortedReverse(row_indices) ==
    IF row_indices = << >> THEN << >>
    ELSE LET k == CHOOSE k \in 1..Len(row_indices) :
                    \A j \in 1..Len(row_indices) :
                      row_indices[k] >= row_indices[j]
             rest == [j \in 1..(Len(row_indices) - 1) |->
                        IF j < k THEN row_indices[j] ELSE row_indices[j + 1]]
         IN <<row_indices[k]>> \o SortedReverse(rest)

\* worksheet.delete_rows(row_index): the rows below move up by one.
WorksheetDeleteRows(values, row_index) ==
    [j \in 1..(Len(values) - 1) |->
        IF j < row_index THEN values[j] ELSE values[j + 1]]

sweepRest ==
    <<batch, all_alerts, verdict, existing_alerts, alerts_to_add, new_count,
      restored, replanned, calls, scrapeVars>>

InitSweep ==
    /\ pc = "sheet"
    /\ batch = << >>
    /\ all_alerts = << >>
    /\ verdict = FALSE
    /\ InitStore

\* The worksheet before the script runs gets one more data row.
DrawSheetRow ==
    /\ pc = "sheet"
    /\ Len(store) < MaxSheet
    /\ \E row \in SheetRows : store' = Append(store, row)
    /\ UNCHANGED <<pc, sweep, sweepRest>>

\* authenticate or open_sheet_and_worksheet raises, or the worksheet is
\* not found: the script logs and returns.
OpenFails ==
    /\ pc = "sheet"
    /\ sweep' = [NoSweep EXCEPT !.status = "aborted"]
    /\ pc' = "swept"
    /\ UNCHANGED <<store, sweepRest>>

\* delete_duplicates from get_all_data to the call of delete_rows.
ScanSheet ==
    /\ pc = "sheet"
    /\ \E read_ok \in BOOLEAN :
          IF ~read_ok
          THEN /\ sweep' = [NoSweep EXCEPT !.status = "aborted"]
               /\ pc' = "swept"
          ELSE LET data == GetAllValues(store)
                   headers == data[1]
                   data_rows == Tail(data)
                   hash_id_index == CHOOSE f \in DOMAIN headers :
                                       headers[f] = HashIDTitle
                   duplicate_row_indices ==
                       DuplicateRowIndices(data_rows, hash_id_index, 0, {})
               IN IF duplicate_row_indices = << >>
                  THEN /\ sweep' = [NoSweep EXCEPT !.data_rows = data_rows,
                                                   !.status = "clean"]
                       /\ pc' = "swept"
                  ELSE /\ sweep' =
                            [data_rows |-> data_rows,
                             duplicate_row_indices |-> duplicate_row_indices,
                             todo |-> SortedReverse(duplicate_row_indices),
                             deleted |-> << >>,
                             status |-> "deleting"]
                       /\ pc' = "deleting"
    /\ UNCHANGED <<store, sweepRest>>

\* One turn of the loop of GoogleSheetsManager.delete_rows: the call
\* deletes the row, or raises and the loop is left.
DeleteRow ==
    /\ pc = "deleting"
    /\ \E ok \in BOOLEAN :
          IF ok
          THEN LET row_index == Head(sweep.todo)
               IN /\ store' = Tail(WorksheetDeleteRows(GetAllValues(store),
                                                       row_index))
                  /\ sweep' = [sweep EXCEPT
                         !.todo = Tail(@),
                         !.deleted = Append(@, row_index),
                         !.status = IF Tail(sweep.todo) = << >>
                                    THEN "completed" ELSE @]
                  /\ pc' = IF Tail(sweep.todo) = << >> THEN "swept"
                           ELSE "deleting"
          ELSE /\ sweep' = [sweep EXCEPT !.status = "failed"]
               /\ pc' = "swept"
               /\ UNCHANGED store
    /\ UNCHANGED sweepRest

NextSweep == DrawSheetRow \/ OpenFails \/ ScanSheet \/ DeleteRow

SpecSweep == InitSweep /\ [][NextSweep]_vars

(***************************************************************************)
(* The claims.                                                             *)
(***************************************************************************)
\* The three rules of the detector, stated on the fields.
SameReference(a, b) ==
    a.reference /= EMPTY /\ b.reference /= EMPTY /\ a.reference = b.reference

SameHash(a, b) ==
    a.hash_id /= EMPTY /\ b.hash_id /= EMPTY /\ a.hash_id = b.hash_id

Similarity(a, b) == FuzzRatio(lower(a.title), lower(b.title))

SameDay(a, b) == a.issue_date.day = b.issue_date.day

FuzzyMatch(a, b) ==
    a.source = b.source /\ Similarity(a, b) >= 85 /\ SameDay(a, b)

Deduped == pc = "deduped"

\* The positions of batch that are in the output, as the engine computed them.
Kept == Range(KeptIdx(batch))

Dropped == (1..Len(batch)) \ Kept

\* C2: remove_duplicates is idempotent: deduplicating the output of
\* remove_duplicates gives that output again, also for inputs on which
\* is_duplicate is not transitive.
C2_Idempotent == Deduped => RemoveDuplicates(all_alerts) = all_alerts

\* A deduplicated input with records a ~ b, b ~ c and not a ~ c, of which
\* something was dropped.
C2_Witness ==
    /\ Deduped
    /\ Len(all_alerts) < Len(batch)
    /\ \E i, j, k \in 1..Len(batch) :
          /\ IsDuplicate(batch[i], batch[j])
          /\ IsDuplicate(batch[j], batch[k])
          /\ ~IsDuplicate(batch[i], batch[k])

\* C3: no two records at distinct positions of the output of
\* remove_duplicates satisfy is_duplicate, in either argument order.
C3_NoTwoDuplicatesKept ==
    Deduped =>
        \A i, j \in 1..Len(all_alerts) :
            i /= j => ~IsDuplicate(all_alerts[i], all_alerts[j])

\* An output of two or more records from which the second phase removed one.
C3_Witness ==
    /\ Deduped
    /\ Len(all_alerts) >= 2
    /\ Len(all_alerts) < Len(Phase1Idx(batch))

\* C4 as claimed: every dropped record is is_duplicate-matched to a record
\* earlier in the input that is in the output.
C4_DroppedMatchesKept ==
    Deduped =>
        LET kept == Kept IN
        \A p \in (1..Len(batch)) \ kept :
            \E q \in kept : q < p /\ IsDuplicate(batch[q], batch[p])

\* C4 as amended: every dropped record is is_duplicate-matched to an earlier
\* record that survived the first phase, and that record is in the output or
\* is itself matched to a still earlier record that is in the output; a record
\* dropped in the second phase is matched to an earlier record in the output.
C4_DroppedChainsToKept ==
    Deduped =>
        LET p1 == Range(Phase1Idx(batch))
            kept == Kept
        IN
        \A p \in (1..Len(batch)) \ kept :
            /\ \E q \in p1 :
                  /\ q < p
                  /\ IsDuplicate(batch[q], batch[p])
                  /\ \/ q \in kept
                     \/ \E r \in kept :
                           r < q /\ IsDuplicate(batch[r], batch[q])
            /\ p \in p1 =>
                  \E q \in kept : q < p /\ IsDuplicate(batch[q], batch[p])

\* A record dropped in the first phase whose match was dropped in the second,
\* and that matches no record of the output.
C4_Witness ==
    /\ Deduped
    /\ \E p \in Dropped :
          /\ p \notin Range(Phase1Idx(batch))
          /\ \A q \in Kept : ~IsDuplicate(batch[q], batch[p])

RECURSIVE IsSubsequence(_, _)
IsSubsequence(s, t) ==
    IF s = << >> THEN TRUE
    ELSE IF t = << >> THEN FALSE
    ELSE IF Head(s) = Head(t) THEN IsSubsequence(Tail(s), Tail(t))
    ELSE IsSubsequence(s, Tail(t))

\* C5: the output of remove_duplicates is a subsequence of its input (the
\* kept records in their input order), and the first record of a non-empty
\* input is the first record of the output.
C5_Subsequence ==
    Deduped =>
        /\ IsSubsequence(all_alerts, batch)
        /\ batch /= << >> =>
              all_alerts /= << >> /\ all_alerts[1] = batch[1]

\* Two different records kept around a dropped one.
C5_Witness ==
    /\ Deduped
    /\ Len(batch) = 3
    /\ Len(all_alerts) = 2
    /\ all_alerts[1] /= all_alerts[2]
    /\ 2 \in Dropped

Compared == pc = "compared"

\* C6: is_duplicate(a, b) is true exactly when a and b have the same
\* non-empty reference, or the same source, a title similarity of at least
\* 85 and the same issue day, or the same non-empty hash_id.
C6_DetectorRules ==
    Compared =>
        (verdict <=> \/ SameReference(batch[1], batch[2])
                     \/ FuzzyMatch(batch[1], batch[2])
                     \/ SameHash(batch[1], batch[2]))

\* A pair judged duplicate by the hash rule alone.
C6_Witness ==
    /\ Compared
    /\ verdict
    /\ ~SameReference(batch[1], batch[2])
    /\ ~FuzzyMatch(batch[1], batch[2])

\* C7 as claimed: records with the same non-empty reference are judged
\* duplicate whatever their other fields, and remove_duplicates keeps no
\* other than the first of two such records.
C7_KeepsOnlyFirst ==
    Deduped =>
        LET kept == Kept IN
        \A i, j \in 1..Len(batch) :
            (i < j /\ SameReference(batch[i], batch[j])) =>
                /\ IsDuplicate(batch[i], batch[j])
                /\ IsDuplicate(batch[j], batch[i])
                /\ j \notin kept

\* C7 as amended: such records are judged duplicate whatever their other
\* fields, and remove_duplicates never keeps both: it keeps the later one
\* only when the earlier one was dropped as a duplicate of a still earlier
\* record, and of a two-record input it returns the first alone.
C7_ReferencePrecedence ==
    Deduped =>
        LET kept == Kept IN
        \A i, j \in 1..Len(batch) :
            (i < j /\ SameReference(batch[i], batch[j])) =>
                /\ IsDuplicate(batch[i], batch[j])
                /\ IsDuplicate(batch[j], batch[i])
                /\ ~(i \in kept /\ j \in kept)
                /\ j \in kept =>
                      \E k \in 1..(i - 1) : IsDuplicate(batch[k], batch[i])
                /\ Len(batch) = 2 => all_alerts = <<batch[1]>>

\* A pair with the same reference and another title, source, day, originator
\* and hash_id, deduplicated to its first record.
C7_Witness ==
    /\ Deduped
    /\ Len(batch) = 2
    /\ SameReference(batch[1], batch[2])
    /\ Similarity(batch[1], batch[2]) < 85
    /\ batch[1].source /= batch[2].source
    /\ ~SameDay(batch[1], batch[2])
    /\ batch[1].originator /= batch[2].originator
    /\ batch[1].hash_id /= batch[2].hash_id
    /\ all_alerts = <<batch[1]>>

\* C8: with the threshold at 0.85, records of the same source and issue day
\* are duplicates when their title similarity is 85 or more, and are not when
\* it is 84 or less and they share neither a reference nor a hash_id.
C8_ThresholdBoundary ==
    (Compared /\ batch[1].source = batch[2].source
              /\ SameDay(batch[1], batch[2])) =>
        /\ Similarity(batch[1], batch[2]) >= 85 => verdict
        /\ (/\ Similarity(batch[1], batch[2]) <= 84
            /\ ~SameReference(batch[1], batch[2])
            /\ ~SameHash(batch[1], batch[2])) => ~verdict

\* A pair at similarity exactly 85 that only the fuzzy rule makes duplicates.
C8_Witness ==
    /\ Compared
    /\ batch[1].source = batch[2].source
    /\ SameDay(batch[1], batch[2])
    /\ Similarity(batch[1], batch[2]) = 85
    /\ ~SameReference(batch[1], batch[2])
    /\ ~SameHash(batch[1], batch[2])
    /\ verdict

\* C9: is_duplicate is symmetric: is_duplicate(b, a) is is_duplicate(a, b).
C9_Symmetric ==
    Compared => verdict = IsDuplicate(batch[2], batch[1])

\* A pair of which exactly one record has an empty reference and exactly one
\* an empty hash_id, judged duplicate.
C9_Witness ==
    /\ Compared
    /\ verdict
    /\ (batch[1].reference = EMPTY) /= (batch[2].reference = EMPTY)
    /\ (batch[1].hash_id = EMPTY) /= (batch[2].hash_id = EMPTY)

\* C1: after any sequence of runs, also runs in which the rows cannot be read
\* or a row cannot be converted back, no two rows of the store have the same
\* non-empty Hash ID or the same non-empty Reference.
C1_StoreHasNoDuplicates ==
    \A i, j \in 1..Len(store) :
        i < j =>
            /\ ~(store[i].HashID /= EMPTY /\ store[i].HashID = store[j].HashID)
            /\ ~(/\ store[i].Reference /= EMPTY
                 /\ store[i].Reference = store[j].Reference)

Updated == pc = "updated"

\* The records of s at the positions in P, in their order in s.
RECURSIVE Restrict(_, _, _)
Restrict(s, P, i) ==
    IF i > Len(s) THEN << >>
    ELSE IF i \in P THEN <<s[i]>> \o Restrict(s, P, i + 1)
    ELSE Restrict(s, P, i + 1)

\* Candidate i is new with respect to the known records and the accepted
\* candidates before it, by hash_id and by reference.
NewByHash(i, acc) ==
    \/ all_alerts[i].hash_id = EMPTY
    \/ /\ \A k \in 1..Len(existing_alerts) :
             existing_alerts[k].hash_id /= all_alerts[i].hash_id
       /\ \A j \in acc : j < i => all_alerts[j].hash_id /= all_alerts[i].hash_id

NewByReference(i, acc) ==
    \/ all_alerts[i].reference = EMPTY
    \/ /\ \A k \in 1..Len(existing_alerts) :
             existing_alerts[k].reference /= all_alerts[i].reference
       /\ \A j \in acc : j < i =>
             all_alerts[j].reference /= all_alerts[i].reference

\* The accepted positions: a candidate is accepted exactly when it is new by
\* hash_id and by reference.
IsAcceptedSet(acc) ==
    \A i \in 1..Len(all_alerts) :
        i \in acc <=> (NewByHash(i, acc) /\ NewByReference(i, acc))

\* The first part of C10: the planning step accepts exactly the candidates
\* that are new by hash_id and by reference, in their input order.
C10_AcceptanceRule ==
    Updated =>
        \E acc \in SUBSET (1..Len(all_alerts)) :
            /\ IsAcceptedSet(acc)
            /\ alerts_to_add = Restrict(all_alerts, acc, 1)

\* The last part of C10: a candidate whose reference, title, originator and
\* issue day give the hash of a known record is not accepted.
C10_KnownIdentityNotAccepted ==
    Updated =>
        \A i \in 1..Len(all_alerts) :
            (\E k \in 1..Len(existing_alerts) :
                 GenerateHash(all_alerts[i]) = existing_alerts[k].hash_id)
            => \A n \in 1..Len(alerts_to_add) : alerts_to_add[n] /= all_alerts[i]

\* C10: the planning step accepts a candidate exactly when its non-empty
\* hash_id and its non-empty reference are neither in the known records nor
\* in an earlier accepted candidate, keeps the input order, and never accepts
\* a candidate whose four identity fields give the hash of a known record.
C10_PlannerAccepts == C10_AcceptanceRule /\ C10_KnownIdentityNotAccepted

Replanned == pc = "replanned"

\* A record with neither a hash_id nor a reference.
NoIdentity(a) == a.hash_id = EMPTY /\ a.reference = EMPTY

C12_FreshPlanKeepsDeduped ==
    (Updated /\ existing_alerts = << >>) =>
        /\ alerts_to_add = all_alerts
        /\ \A i, j \in 1..Len(alerts_to_add) :
              i /= j => ~SameReference(alerts_to_add[i], alerts_to_add[j])
        /\ (Len(batch) = 2 /\ SameReference(batch[1], batch[2])) =>
              alerts_to_add = <<batch[1]>>

\* A batch of two records that share a reference and differ in title and
\* source, planned on an empty worksheet.
C12_Witness ==
    /\ Updated
    /\ store = << >>
    /\ existing_alerts = << >>
    /\ Len(batch) = 2
    /\ SameReference(batch[1], batch[2])
    /\ Similarity(batch[1], batch[2]) < 85
    /\ batch[1].source /= batch[2].source
    /\ alerts_to_add = <<batch[1]>>

\* The four values the hash is computed from.
SameIdentity(a, b) ==
    /\ a.reference = b.reference
    /\ a.title = b.title
    /\ a.originator = b.originator
    /\ Date(a.issue_date) = Date(b.issue_date)

\* C13: two Alerts constructed without a supplied hash that agree on
\* reference, title, originator and the calendar day of issue_date have the
\* same hash_id, whatever their other fields and whatever was constructed
\* before.
C13_HashDeterministic ==
    \A i, j \in 1..Len(batch) :
        SameIdentity(batch[i], batch[j]) =>
            batch[i].hash_id = batch[j].hash_id

\* Two constructed records that agree on the four values and differ in the
\* time of day and in every other field.
C13_Witness ==
    /\ pc = "construct"
    /\ Len(batch) = 2
    /\ SameIdentity(batch[1], batch[2])
    /\ batch[1].issue_date /= batch[2].issue_date
    /\ batch[1].status /= batch[2].status
    /\ batch[1].alert_type /= batch[2].alert_type
    /\ batch[1].source /= batch[2].source
    /\ batch[1].url /= batch[2].url
    /\ batch[1].medical_specialty /= batch[2].medical_specialty
    /\ batch[1].scraped_at /= batch[2].scraped_at
    /\ batch[1].hash_id = batch[2].hash_id

\* C14: every record a scraper hands to remove_duplicates has the hash_id
\* that generate_hash gives for its reference, title, originator and issue
\* day as they are then: enrichment changes none of the four nor the hash.
C14_HashMatchesFields ==
    pc = "scraped" =>
        \A i \in 1..Len(batch) : batch[i].hash_id = GenerateHash(batch[i])

Restored == pc = "restored"

\* C15: for every Alert a, from_dict(to_dict(a)) has the hash_id of a and
\* its reference, title, originator, issue day, status, alert_type, source
\* and url, and the round trip applied twice gives what it gives once.
C15_RoundTrip ==
    Restored =>
        LET records == batch \o existing_alerts IN
        \A k \in 1..Len(records) :
            LET a == records[k]
                b == restored.once[k].alert
            IN /\ restored.once[k].ok
               /\ b.hash_id = a.hash_id
               /\ SameIdentity(a, b)
               /\ b.status = a.status
               /\ b.alert_type = a.alert_type
               /\ b.source = a.source
               /\ b.url = a.url
               /\ restored.twice[k] = restored.once[k]

\* A record with a time of day, which the round trip drops, and a record
\* with an empty hash_id, which the round trip keeps empty.
C15_Witness ==
    /\ Restored
    /\ batch /= << >>
    /\ existing_alerts /= << >>
    /\ batch[1].issue_date.time = Noon
    /\ restored.once[1].alert /= batch[1]
    /\ existing_alerts[1].hash_id = EMPTY
    /\ restored.once[Len(batch) + 1].alert.hash_id = EMPTY

\* C16: every row update_with_new_alerts appends carries Issue Date as
\* YYYY-MM-DD and Scraped At as YYYY-MM-DD HH:MM:SS, the forms from_dict
\* parses when the row is read back on the next run.
C16_AppendedRowsParse ==
    \A k \in 1..Len(store) :
        /\ StrptimeYmd(store[k].IssueDate).ok
        /\ StrptimeYmdHMS(store[k].ScrapedAt).ok
        /\ FromDict(store[k], Now).ok

\* C17: a failure of reading the rows or of appending is never swallowed:
\* a run that ends as a successful run has read the rows of the store and
\* has appended every record it accepted; otherwise the run ends as a
\* failed run.
C17_FailuresEndTheRun ==
    [][(pc = "deduped" /\ pc' = "updated") =>
          /\ existing_alerts' = DataframeToAlerts(store, Now)
          /\ alerts_to_add' /= << >> =>
                /\ new_count' = Len(alerts_to_add')
                /\ Len(store') = Len(store) + Len(alerts_to_add')]_vars

\* Candidate i shares no non-empty hash_id and no non-empty reference with
\* a known record or with a candidate before it.
ExactlyNew(i) ==
    /\ \A k \in 1..Len(existing_alerts) :
          /\ ~SameHash(existing_alerts[k], all_alerts[i])
          /\ ~SameReference(existing_alerts[k], all_alerts[i])
    /\ \A j \in 1..(i - 1) :
          /\ ~SameHash(all_alerts[j], all_alerts[i])
          /\ ~SameReference(all_alerts[j], all_alerts[i])

\* C18: the planner tests exact equality of hash_id and reference alone: a
\* candidate whose hash_id and reference are absent from the known records
\* is accepted, also when the fuzzy rule of is_duplicate matches it to a
\* known record.
C18_ExactMatchOnly ==
    Updated =>
        \A i \in 1..Len(all_alerts) :
            ExactlyNew(i) =>
                \E n \in 1..Len(alerts_to_add) :
                    alerts_to_add[n] = all_alerts[i]

\* An accepted candidate that the fuzzy rule matches to a known record.
C18_Witness ==
    /\ Updated
    /\ \E i \in 1..Len(all_alerts), k \in 1..Len(existing_alerts) :
          /\ ExactlyNew(i)
          /\ all_alerts[i].hash_id /= EMPTY
          /\ all_alerts[i].reference /= EMPTY
          /\ FuzzyMatch(existing_alerts[k], all_alerts[i])
          /\ IsDuplicate(existing_alerts[k], all_alerts[i])
          /\ \E n \in 1..Len(alerts_to_add) : alerts_to_add[n] = all_alerts[i]

\* C19: an empty reference or hash_id never counts as a match.  Two records
\* with an empty reference, or with an empty hash_id, are duplicates by
\* another rule only; Phase 1 drops a record only for a non-empty reference
\* or hash_id it shares with an earlier survivor; the planner skips a
\* candidate only for a non-empty hash_id or reference it shares with a
\* known record or an earlier candidate.
C19_EmptyNeverMatches ==
    /\ (Compared /\ verdict) =>
          /\ (batch[1].reference = EMPTY \/ batch[2].reference = EMPTY) =>
                FuzzyMatch(batch[1], batch[2]) \/ SameHash(batch[1], batch[2])
          /\ (batch[1].hash_id = EMPTY \/ batch[2].hash_id = EMPTY) =>
                \/ FuzzyMatch(batch[1], batch[2])
                \/ SameReference(batch[1], batch[2])
    /\ Deduped =>
          LET p1 == Range(Phase1Idx(batch)) IN
          \A p \in (1..Len(batch)) \ p1 :
              \E q \in p1 :
                  /\ q < p
                  /\ \/ SameReference(batch[q], batch[p])
                     \/ SameHash(batch[q], batch[p])
    /\ Updated =>
          /\ \A i \in 1..Len(all_alerts) :
                ExactlyNew(i) =>
                    \E n \in 1..Len(alerts_to_add) :
                        alerts_to_add[n] = all_alerts[i]
          /\ (\A i \in 1..Len(all_alerts) : ExactlyNew(i)) =>
                alerts_to_add = all_alerts

\* Two records with neither a reference nor a hash_id, judged not
\* duplicate, both kept by remove_duplicates and both accepted although a
\* known record has neither a reference nor a hash_id.
C19_Witness ==
    /\ Updated
    /\ Len(batch) = 2
    /\ NoIdentity(batch[1])
    /\ NoIdentity(batch[2])
    /\ ~verdict
    /\ all_alerts = batch
    /\ \E k \in 1..Len(existing_alerts) : NoIdentity(existing_alerts[k])
    /\ alerts_to_add = batch

\* C20: remove_duplicates and the planning step give an empty output for an
\* empty input: remove_duplicates of no records is no records, and with no
\* candidates the planning step accepts nothing, appends nothing and
\* returns 0, whatever the known records.
C20_EmptyInEmptyOut ==
    /\ [](batch = << >> => all_alerts = << >>)
    /\ [][(pc = "deduped" /\ pc' /= pc /\ all_alerts = << >>) =>
             /\ store' = store
             /\ pc' = "updated" =>
                   /\ alerts_to_add' = << >>
                   /\ new_count' = 0]_vars

\* No record scraped, and a worksheet with a row.
C20_Witness ==
    /\ Updated
    /\ batch = << >>
    /\ all_alerts = << >>
    /\ store /= << >>
    /\ existing_alerts /= << >>
    /\ alerts_to_add = << >>
    /\ new_count = 0

UpdateReturned == pc = "deduped" /\ pc' = "updated"

\* The call of update_with_new_alerts ends.
UpdateEnded == pc = "deduped" /\ pc' /= pc

\* What a call that returns leaves: nothing appended and 0, or the accepted
\* records appended once each, in order, and their number.
CountIsRowsAppended ==
    /\ new_count' = Len(store') - Len(store)
    /\ \/ store' = store
       \/ /\ alerts_to_add' /= << >>
          /\ store' = store \o [k \in 1..Len(alerts_to_add') |->
                                   RowToAppend(alerts_to_add'[k])]

\* C22 as claimed: every call of update_with_new_alerts returns the number
\* of rows it appended, 0 with nothing appended when the worksheet is
\* unavailable among the cases.
C22_AlwaysReturnsCount ==
    [][UpdateEnded => (UpdateReturned /\ CountIsRowsAppended)]_vars

\* C22 as amended: a call that cannot authenticate or open the worksheet
\* raises and appends nothing; a call that returns, returns the number of
\* rows it appended: 0 and nothing appended when no candidate is new or the
\* append fails, otherwise the accepted candidates once each and their count.
C22_ReturnsRowsAppended ==
    [][UpdateEnded =>
         /\ ~UpdateReturned => store' = store
         /\ UpdateReturned => CountIsRowsAppended]_vars

\* A call on a worksheet with a row that appended two records and
\* returned 2.
C22_Witness ==
    /\ Updated
    /\ existing_alerts /= << >>
    /\ Len(alerts_to_add) = 2
    /\ new_count = 2
    /\ Len(store) = Len(existing_alerts) + 2

\* C23: every Alert has a non-empty hash_id after construction, built
\* directly or rebuilt from a row by from_dict: the hash of its fields when
\* none was supplied (Hash ID absent or blank), the supplied one otherwise.
C23_EveryAlertHasHash ==
    /\ \A k \in 1..Len(batch) :
          batch[k].hash_id = GenerateHash(batch[k])
    /\ \A k \in 1..Len(existing_alerts) :
          /\ existing_alerts[k].hash_id /= EMPTY
          /\ existing_alerts[k].hash_id
                \in {GenerateHash(existing_alerts[k]), StaleHash}

\* The positions of batch that survive the first phase.
Phase1Survivors == Range(Phase1Idx(batch))

\* C24: Phase 1 of remove_duplicates keeps a record exactly when no earlier
\* Phase-1 survivor has the same non-empty reference or the same non-empty
\* hash_id; no two Phase-1 survivors share a non-empty reference or a
\* non-empty hash_id.
C24_Phase1KeepsExactlyNew ==
    Deduped =>
        LET p1 == Phase1Survivors IN
        /\ \A p \in 1..Len(batch) :
              p \in p1 <=>
                  ~\E q \in p1 :
                       /\ q < p
                       /\ \/ SameReference(batch[q], batch[p])
                          \/ SameHash(batch[q], batch[p])
        /\ \A p \in p1, q \in p1 :
              p /= q => /\ ~SameReference(batch[p], batch[q])
                        /\ ~SameHash(batch[p], batch[q])

\* Three records: the second dropped for the reference of the first, the
\* third, with another reference, for the hash_id of the first.
C24_Witness ==
    /\ Deduped
    /\ Len(batch) = 3
    /\ Phase1Survivors = {1}
    /\ SameReference(batch[1], batch[2])
    /\ ~SameHash(batch[1], batch[2])
    /\ ~SameReference(batch[1], batch[3])
    /\ SameHash(batch[1], batch[3])

\* The Phase-1 survivors of batch, in order.
Survivors == Pick(batch, Phase1Idx(batch))

\* C25: in Phase 2 a survivor is removed only when it is a duplicate of an
\* earlier survivor that is itself kept, and every survivor that is a
\* duplicate of an earlier kept survivor is removed.  For survivors A, B, C
\* with is_duplicate(A, B), is_duplicate(B, C) and not is_duplicate(A, C)
\* the output is [A, C].
C25_RemovedByKeptAnchorOnly ==
    Deduped =>
        LET u == Survivors
            kept == {j \in 1..Len(u) :
                       \E n \in 1..Len(all_alerts) :
                           all_alerts[n] = u[j]}
        IN /\ \A j \in 1..Len(u) :
                 j \notin kept <=>
                     \E i \in kept : i < j /\ IsDuplicate(u[i], u[j])
           /\ (/\ Len(u) = 3
               /\ IsDuplicate(u[1], u[2])
               /\ IsDuplicate(u[2], u[3])
               /\ ~IsDuplicate(u[1], u[3]))
              => all_alerts = <<u[1], u[3]>>

\* Three survivors A, B, C: B a duplicate of A, C a duplicate of B and not
\* of A; A and C are returned.
C25_Witness ==
    /\ Deduped
    /\ Len(batch) = 3
    /\ Survivors = batch
    /\ IsDuplicate(batch[1], batch[2])
    /\ IsDuplicate(batch[2], batch[3])
    /\ ~IsDuplicate(batch[1], batch[3])
    /\ all_alerts = <<batch[1], batch[3]>>

\* The dates a CAS row and a GOV.UK item of the model's pages can carry:
\* the days strptime reads from their texts, and the day of the detail page.
PageDates == {Day(d) : d \in 1..9}

\* C26: neither scraper emits an Alert for a row or item whose date is
\* missing or cannot be read: the records parsed from a page are as many as
\* its rows with a date that can be read, and every record handed to
\* remove_duplicates has an issue_date read from a page, never the current
\* time.
C26_NoAlertWithoutDate ==
    /\ Len(crawl.parsed)
         = Cardinality({k \in 1..Len(crawl.rows) :
               LET row == crawl.rows[k] IN
               IF "cols" \in DOMAIN row
               THEN /\ row.cols >= 5
                    /\ \E d \in 1..9 :
                          clean_text(row.issue_date) = <<"0", Digits[d + 1]>>
                              \o <<"-", "J", "a", "n", "-", "2", "0", "2", "5">>
               ELSE /\ row.href /= EMPTY
                    /\ \E d \in 1..9 : row.date = TextdBY(d)})
    /\ \A k \in 1..Len(crawl.parsed) :
          crawl.parsed[k].issue_date \in PageDates
    /\ \A k \in 1..Len(crawl.alerts) :
          crawl.alerts[k].issue_date \in PageDates
    /\ \A k \in 1..Len(batch) :
          /\ batch[k].issue_date \in PageDates
          /\ batch[k].issue_date /= Now

\* A page with a row whose date does not exist before a row with a date:
\* one record is parsed, and a batch with a CAS and a GOV.UK record is
\* handed on.
C26_Witness ==
    /\ pc = "scraped"
    /\ Len(crawl.rows) = 2
    /\ Len(crawl.parsed) = 1
    /\ Len(batch) >= 2
    /\ batch[1].source = "CAS"
    /\ batch[Len(batch)].source = "GOVUK"

\* What holds of a call of handle_request_errors at every moment.
RequestBounded ==
    /\ request.attempts <= MAX_RETRIES + 1
    /\ request.result = "pending" =>
          /\ request.failed = request.attempts
          /\ request.retries = request.failed
    /\ request.result = "response" =>
          /\ request.attempts >= 1
          /\ request.failed = request.attempts - 1
          /\ request.retries = request.failed
    /\ request.result = "None" =>
          /\ request.attempts = MAX_RETRIES + 1
          /\ request.failed = request.attempts
          /\ request.retries = MAX_RETRIES

\* What holds of every step of it: a GET is made only while the call is
\* pending, it is one GET, and a failed GET that is retried adds 1 to the
\* retries argument.
RequestStep ==
    /\ (request.result \in {"response", "None"} /\ request' /= request)
          => request'.attempts = 0
    /\ (request.result = "pending" /\ request' /= request) =>
          /\ request'.url = request.url
          /\ request'.attempts = request.attempts + 1
          /\ request'.result = "pending" =>
                /\ request'.failed = request.failed + 1
                /\ request'.retries = request.retries + 1
          /\ request'.result = "response" =>
                request'.retries = request.retries

\* C27: handle_request_errors ends after at most MAX_RETRIES + 1 GETs of one
\* URL: it returns the response of the first GET that succeeds and makes no
\* further one, returns None only after MAX_RETRIES + 1 failed GETs in a
\* row, and its retries argument grows by exactly 1 with every failed GET
\* that is retried.
C27_RequestEndsWithinRetries ==
    /\ []RequestBounded
    /\ [][RequestStep]_vars
    /\ (request.result = "pending") ~> (request.result /= "pending")

\* A response on the last GET the retries allow.
C27_Witness ==
    /\ request.result = "response"
    /\ request.failed = MAX_RETRIES
    /\ request.attempts = MAX_RETRIES + 1

\* The records of the pages of crawl.log from entry i on, in order.
RECURSIVE LoggedAlerts(_)
LoggedAlerts(i) ==
    IF i > Len(crawl.log) THEN << >>
    ELSE crawl.log[i].alerts \o LoggedAlerts(i + 1)

\* A page of crawl.log failed to load.
PageFailed == \E i \in 1..Len(crawl.log) : ~crawl.log[i].loaded

\* C28: in both scrapers a page that fails to load ends pagination: no
\* later page of that scraper is requested, scrape returns the records of
\* the pages read before it (none if the first page fails) and does not
\* raise, and the run goes on to remove_duplicates and the store update
\* with that batch.
C28_FailedPageEndsPagination ==
    /\ [](\A i \in 1..Len(crawl.log) :
            /\ ~crawl.log[i].loaded => crawl.log[i].alerts = << >>
            /\ (~crawl.log[i].loaded /\ i < Len(crawl.log)) =>
                  /\ crawl.log[i].scraper = "CAS"
                  /\ \A j \in (i + 1)..Len(crawl.log) :
                        crawl.log[j].scraper = "GOVUK")
    /\ [](pc \in {"scraped", "deduped", "updated", "done"} =>
            batch = LoggedAlerts(1))
    /\ [][(PageFailed' /\ ~PageFailed) => pc' \in {"govuk", "scraped"}]_vars
    /\ [](pc \in {"deduped", "updated", "done"} =>
            all_alerts = ProcessAndDeduplicate(LoggedAlerts(1)))
    /\ (PageFailed /\ pc = "scraped") ~> (pc \in {"done", "exited"})

\* The second page of each site failed; the records of the two first pages
\* were appended to the worksheet.
C28_Witness ==
    /\ pc = "done"
    /\ Len(crawl.log) = 4
    /\ crawl.log[1].loaded /\ crawl.log[1].alerts /= << >>
    /\ ~crawl.log[2].loaded /\ crawl.log[2].scraper = "CAS"
    /\ crawl.log[3].loaded /\ crawl.log[3].alerts /= << >>
    /\ ~crawl.log[4].loaded
    /\ Len(batch) = 2
    /\ new_count = 2
    /\ Len(store) = 2

\* The order of main's steps: the step pc names may be followed by these.
StepOrder ==
    {<<"cas_initial", "cas_pages">>, <<"cas_initial", "govuk">>,
     <<"cas_pages", "govuk">>, <<"cas_pages", "failed">>,
     <<"govuk", "scraped">>, <<"scraped", "deduped">>,
     <<"deduped", "updated">>, <<"deduped", "failed">>,
     <<"updated", "done">>, <<"failed", "exited">>}

\* No GOVUK record of the sequence stands before a CAS record.
CasBeforeGovuk(alerts) ==
    \A i \in 1..Len(alerts), j \in 1..Len(alerts) :
      (alerts[i].source = "CAS" /\ alerts[j].source = "GOVUK") => i < j

\* C29: one run of main scrapes both sites, then removes duplicates from
\* the CAS records followed by the GOVUK records, then updates the store;
\* it sends the success notification exactly when the update returned a
\* count above 0, sends the error notification and exits with status 1
\* exactly when an exception escaped a step, and never sends both.
C29_MainOrderAndNotices ==
    /\ [][pc' /= pc => <<pc, pc'>> \in StepOrder]_vars
    /\ [][store' /= store => (pc = "deduped" /\ pc' = "updated")]_vars
    /\ [](pc \in {"scraped", "deduped", "updated", "done"} =>
            /\ batch = crawl.cas_alerts \o crawl.alerts
            /\ \A i \in 1..Len(crawl.cas_alerts) :
                  crawl.cas_alerts[i].source = "CAS"
            /\ \A i \in 1..Len(crawl.alerts) :
                  crawl.alerts[i].source = "GOVUK"
            /\ CasBeforeGovuk(batch))
    /\ [](pc \in {"deduped", "updated", "done"} =>
            all_alerts = ProcessAndDeduplicate(batch))
    /\ [](pc \notin {"done", "exited"} =>
            outcome = [notices |-> << >>, exit_status |-> "none"])
    /\ [](pc = "done" =>
            /\ outcome.exit_status = "0"
            /\ outcome.notices =
                  (IF new_count > 0 THEN <<"success">> ELSE << >>))
    /\ [](pc = "exited" =>
            outcome = [notices |-> <<"error">>, exit_status |-> "1"])
    /\ [](Len(outcome.notices) <= 1)
    /\ (pc = "failed") ~> (pc = "exited")
    /\ <>(pc \in {"done", "exited"})

\* A run that read a CAS record and a GOVUK record, appended both and sent
\* the success notification.
C29_Witness ==
    /\ pc = "done"
    /\ Len(batch) = 2
    /\ batch[1].source = "CAS"
    /\ batch[2].source = "GOVUK"
    /\ new_count = 2
    /\ outcome = [notices |-> <<"success">>, exit_status |-> "0"]

\* A run in which an exception escaped the store update after both sites
\* were read.
C29_WitnessError ==
    /\ pc = "exited"
    /\ Len(batch) = 2
    /\ store = << >>
    /\ outcome = [notices |-> <<"error">>, exit_status |-> "1"]

\* A run that read records the worksheet already held: nothing appended,
\* no notification.
C29_WitnessQuiet ==
    /\ pc = "done"
    /\ batch /= << >>
    /\ new_count = 0
    /\ outcome = [notices |-> << >>, exit_status |-> "0"]

\* No two of the rows share a hash cell.
NoSharedHash(rows) ==
    \A i \in 1..Len(rows), j \in 1..Len(rows) :
      rows[i].HashID = rows[j].HashID => i = j

\* Worksheet row r of the rows read has its hash cell in a row above it.
HasEarlierHash(rows, r) ==
    \E q \in 2..(r - 1) : rows[q - 1].HashID = rows[r - 1].HashID

\* The rows read, from data row k on, without the worksheet rows of gone.
RECURSIVE KeepRows(_, _, _)
KeepRows(rows, k, gone) ==
    IF k > Len(rows) THEN << >>
    ELSE (IF (k + 1) \in gone THEN << >> ELSE <<rows[k]>>)
         \o KeepRows(rows, k + 1, gone)

\* Every first row of a hash cell among the rows read, in order.
FirstRows(rows) ==
    KeepRows(rows, 1, {r \in 2..(Len(rows) + 1) : HasEarlierHash(rows, r)})

SweepRange(seq) == {seq[i] : i \in 1..Len(seq)}

C30_WitnessFailed ==
    /\ pc = "swept"
    /\ sweep.status = "failed"
    /\ sweep.duplicate_row_indices = <<4, 5>>
    /\ sweep.deleted = <<5>>
    /\ sweep.todo = <<4>>
    /\ Len(store) = 3

====
